---------------------------- MODULE Spec2Model ----------------------------
(***************************************************************************)
(* A model of coda-parser (src/src/index.ts, src/src/utils/match.ts and    *)
(* the StringStream class): parse(coda) decodes a CODA bank statement,     *)
(* one fixed-width record per line, merges the chained records, decodes    *)
(* the structured communications and links the information records to     *)
(* their movements.                                                        *)
(*                                                                         *)
(* JavaScript values are modelled as follows.                              *)
(*   string      a tuple of one-character strings, <<"2","1">> for '21'    *)
(*   line[i]     a one-character string, or Undefined past the end         *)
(*   number      an integer, or NaN; a quotient n / d that need not be an  *)
(*               integer is the record [num |-> n, den |-> d]              *)
(*   null        Null;  a Date object: Date(s), s the constructor's string *)
(*   object      a record; a payload object that sits where a string may   *)
(*               sit (a decoded communication) is Obj(record)              *)
(*   a call that may throw returns Ok(value) or Err(message)               *)
(*   descriptions of the code tables are opaque TLA+ strings                *)
(***************************************************************************)
EXTENDS Integers, Sequences, FiniteSets, TLC

VARIABLES
    coda,       \* the argument of parse: the text of the statement
    fullYear,   \* new Date().getFullYear(): the year of the system clock
    pc,         \* the place of the call in parse
    lines,      \* parse: lines
    i,          \* parse: the index of the loop that is running
    state,      \* parse: state, the accountStructureData carried to the new balance
    result,     \* parse: result; its lists hold references to the objects of heap
    heap,       \* the record objects, by reference (the number of their line)
    drop,       \* parse: drop, the list of the pass that is running
    handed,     \* history: each call of a communication decoder, with its outcome
    merged,     \* history: the three lists as the merge passes left them
    thrown,     \* the message of the Error that left parse, or <<>>
    calls       \* history: the calls of parse that have ended, with what they returned

vars ==
    <<coda, fullYear, pc, lines, i, state, result, heap, drop, handed, merged, thrown,
      calls>>

\* ------------------------------------------------------------------------
\* JavaScript primitives
\* ------------------------------------------------------------------------

\* str[i] past the end of the string
Undefined == "undefined"

\* null
Null == <<"#null">>

\* a number in a position that may also hold null
Num(n) == <<"#number", n>>

\* an object in a position that may also hold a string
Obj(r) == <<"#object", r>>

\* typeof v === 'string', for v a string or an Obj
IsString(v) == Len(v) = 0 \/ v[1] # "#object"

\* new Date(s): the Date object is identified by the string it was built from
Date(s) == <<"#Date", s>>

IsDate(v) == Len(v) = 2 /\ v[1] = "#Date"

\* {}
EmptyObject == <<>>

\* the outcome of a call: a returned value, or an exception thrown
Ok(v) == [value |-> v]

Err(m) == [threw |-> m]

IsErr(x) == "threw" \in DOMAIN x

\* the result of Number(s) when s is not a numeric literal
NaN == -2147483647

\* the characters that String.prototype.trim and the regular expression \s treat
\* as white space (those of them that the inputs of the model use)
WhiteSpace == {" ", "\t", "\n", "\r", "\f"}

Digits == {"0", "1", "2", "3", "4", "5", "6", "7", "8", "9"}

MinOf(S) == CHOOSE x \in S : \A y \in S : x <= y

MaxOf(S) == CHOOSE x \in S : \A y \in S : y <= x

\* a call f(argument): the argument is evaluated once, before the call
Call(f(_), argument) == CHOOSE returned \in {f(value) : value \in {argument}} : TRUE

\* str[n], n counted from 0
At(str, n) == IF n >= 0 /\ n < Len(str) THEN str[n + 1] ELSE Undefined

\* str.slice(a, b) for 0 <= a, 0 <= b: both ends are clamped to the length
Slice(str, a, b) ==
    CHOOSE sliced \in
        {IF a >= Len(s) \/ a >= b THEN <<>>
         ELSE SubSeq(s, a + 1, IF b < Len(s) THEN b ELSE Len(s)) : s \in {str}} : TRUE

\* str.slice(a)
SliceFrom(str, a) == Slice(str, a, Len(str))

\* str.startsWith(prefix)
startsWith(str, prefix) == Slice(str, 0, Len(prefix)) = prefix

\* str.trim()
trim(str) ==
    CHOOSE trimmed \in
        {IF \A k \in 1..Len(s) : s[k] \in WhiteSpace THEN <<>>
         ELSE SubSeq(s,
                     CHOOSE k \in 1..Len(s) :
                         /\ s[k] \notin WhiteSpace
                         /\ \A j \in 1..(k - 1) : s[j] \in WhiteSpace,
                     CHOOSE k \in 1..Len(s) :
                         /\ s[k] \notin WhiteSpace
                         /\ \A j \in (k + 1)..Len(s) : s[j] \in WhiteSpace) :
         s \in {str}} : TRUE

\* str.replace(/\s{2,}/g, ' '): every maximal run of two or more white-space
\* characters becomes one space; a single white-space character stays as it is
collapseSpaces(str) ==
    CHOOSE collapsed \in
        {LET \* s[k] is in a run of two or more white-space characters
             inRun(k) == /\ s[k] \in WhiteSpace
                         /\ \/ k > 1 /\ s[k - 1] \in WhiteSpace
                            \/ k < Len(s) /\ s[k + 1] \in WhiteSpace
             \* the places that are left: all but the second and later places
             \* of a run
             left == SelectSeq([k \in 1..Len(s) |-> k],
                               LAMBDA k : ~(inRun(k) /\ k > 1 /\ s[k - 1] \in WhiteSpace))
         IN  [n \in 1..Len(left) |-> IF inRun(left[n]) THEN " " ELSE s[left[n]]] :
         s \in {str}} : TRUE

\* the normalization, were the runs of white space inside the string left
normalizeEnds(str) == trim(str)

\* str.trim().replace(/\s{2,}/g, ' ')
normalize(str) == collapseSpaces(trim(str))

\* parts.join(sep)
RECURSIVE join(_, _)
join(parts, sep) ==
    IF parts = <<>> THEN <<>>
    ELSE IF Len(parts) = 1 THEN parts[1]
    ELSE parts[1] \o sep \o join(Tail(parts), sep)

\* the split, were the empty strings between, before and after the newlines
\* left out of the array
splitSkippingEmpty(str) ==
    LET cuts == {0, Len(str) + 1} \cup {k \in 1..Len(str) : str[k] = "\n"}
        pieces == {piece \in cuts \X cuts :
                      /\ piece[1] + 1 < piece[2]
                      /\ \A c \in cuts : ~(piece[1] < c /\ c < piece[2])}
        place(piece) == Cardinality({other \in pieces : other[1] < piece[1]}) + 1
    IN  [j \in 1..Cardinality(pieces) |->
            LET piece == CHOOSE candidate \in pieces : place(candidate) = j
            IN  SubSeq(str, piece[1] + 1, piece[2] - 1)]

\* str.split('\n')
RECURSIVE split(_)
split(str) ==
    CHOOSE parts \in
        {IF \A k \in 1..Len(s) : s[k] # "\n" THEN <<s>>
         ELSE LET first == CHOOSE k \in 1..Len(s) :
                               /\ s[k] = "\n"
                               /\ \A j \in 1..(k - 1) : s[j] # "\n"
              IN  <<SubSeq(s, 1, first - 1)>> \o split(SubSeq(s, first + 1, Len(s))) :
         s \in {str}} : TRUE

DigitValue(c) ==
    CASE c = "0" -> 0 [] c = "1" -> 1 [] c = "2" -> 2 [] c = "3" -> 3 [] c = "4" -> 4
      [] c = "5" -> 5 [] c = "6" -> 6 [] c = "7" -> 7 [] c = "8" -> 8 [] c = "9" -> 9

\* the value of a string of decimal digits
DecimalValue(ds) ==
    LET upTo[k \in 0..Len(ds)] ==
            IF k = 0 THEN 0 ELSE 10 * upTo[k - 1] + DigitValue(ds[k])
    IN  upTo[Len(ds)]

RECURSIVE Pow10(_)
Pow10(n) == IF n = 0 THEN 1 ELSE 10 * Pow10(n - 1)

AllDigits(s) == s # <<>> /\ \A k \in 1..Len(s) : s[k] \in Digits

\* Number(str) for an unsigned StringNumericLiteral without a decimal point:
\* the empty string is 0, decimal digits are their value, digits 'e' digits is
\* mantissa * 10^exponent, anything else NaN
UnsignedNumber(str) ==
    CHOOSE number \in
        {IF t = <<>> THEN 0
         ELSE IF AllDigits(t) THEN DecimalValue(t)
         ELSE IF \E e \in 1..Len(t) : /\ t[e] \in {"e", "E"}
                                      /\ AllDigits(SubSeq(t, 1, e - 1))
                                      /\ AllDigits(SubSeq(t, e + 1, Len(t)))
              THEN LET e == CHOOSE e \in 1..Len(t) : t[e] \in {"e", "E"}
                   IN  DecimalValue(SubSeq(t, 1, e - 1))
                           * Pow10(DecimalValue(SubSeq(t, e + 1, Len(t))))
         ELSE NaN : t \in {str}} : TRUE

\* -u
Negated(u) == IF u = NaN THEN NaN ELSE 0 - u

\* Number(str): white space around the literal is dropped, and the literal may
\* have a sign
Number(str) ==
    CHOOSE number \in
        {IF t = <<"+">> \/ t = <<"-">> THEN NaN
         ELSE IF t # <<>> /\ t[1] = "-" THEN Negated(UnsignedNumber(Tail(t)))
         ELSE IF t # <<>> /\ t[1] = "+" THEN UnsignedNumber(Tail(t))
         ELSE UnsignedNumber(t) : t \in {trim(str)}} : TRUE

\* Number(line[i]): Number(undefined) is NaN
NumberOfChar(c) == IF c = Undefined THEN NaN ELSE Number(<<c>>)

\* the property key that line[i] is looked up by: String(undefined) past the end
CharKey(c) ==
    IF c = Undefined THEN <<"u", "n", "d", "e", "f", "i", "n", "e", "d">> ELSE <<c>>

\* a * b and a / d on numbers, NaN propagating; the quotient is kept exact
Times(a, b) == IF a = NaN \/ b = NaN THEN NaN ELSE a * b

Quotient(a, d) == [num |-> a, den |-> d]

\* String(n) for an integer n >= 0 (the property key a number is looked up by)
RECURSIVE DigitsOf(_)
DigitsOf(n) ==
    LET d == <<"0", "1", "2", "3", "4", "5", "6", "7", "8", "9">>
    IN  IF n < 10 THEN <<d[n + 1]>> ELSE DigitsOf(n \div 10) \o <<d[(n % 10) + 1]>>

NumberKey(n) ==
    IF n = NaN THEN <<"N", "a", "N">>
    ELSE IF n < 0 THEN <<"-">> \o DigitsOf(0 - n) ELSE DigitsOf(n)

\* ------------------------------------------------------------------------
\* utils/match.ts
\* ------------------------------------------------------------------------

\* the symbol __ of match.ts: the key of a lookup's catch-all handler
wildcard == <<"__">>

\* match, were there no catch-all handler
matchKeys(value, lookup) ==
    IF value \in DOMAIN lookup THEN Ok(lookup[value])
    ELSE Err("Tried to handle value but there is no handler defined")

\* match(value, lookup): lookup[value] when value is a key of the lookup, else
\* the catch-all handler when the lookup has one, else an Error is thrown.
\* A handler that is a function is modelled by its lookup, see
\* transaction_description. (`value in lookup` also holds for the properties
\* every object inherits, 'constructor', 'toString', ...: no fixed-width field
\* that is matched is as long as the shortest of them.)
match(value, lookup) ==
    IF value \in DOMAIN lookup \ {wildcard} THEN Ok(lookup[value])
    ELSE IF wildcard \in DOMAIN lookup THEN Ok(lookup[wildcard])
    ELSE Err("Tried to handle value but there is no handler defined")

\* ------------------------------------------------------------------------
\* StringStream
\* ------------------------------------------------------------------------

\* new StringStream(str)
StringStream(str) == [str |-> str, pos |-> 0]

\* stream.skip(n), were the position advanced by one less
skipOneLess(stream, n) == [stream EXCEPT !.pos = @ + n - 1]

\* stream.skip(n): the stream after the call
skip(stream, n) == [stream EXCEPT !.pos = @ + n]

\* stream.take(n): the string taken; the stream after the call is skip(stream, n)
take(stream, n) == Slice(stream.str, stream.pos, stream.pos + n)


\* ------------------------------------------------------------------------
\* parseDate, parseAccount
\* ------------------------------------------------------------------------

\* enum Sign
SignCredit == "0"

SignDebit == "1"

\* the lookup, were the factors of the two signs exchanged
signLookupExchanged == (<<SignCredit>> :> -1) @@ (<<SignDebit>> :> 1)

\* the lookup { [Sign.Credit]: 1, [Sign.Debit]: -1 } of the signed amounts
signLookup == (<<SignCredit>> :> 1) @@ (<<SignDebit>> :> -1)

Duplicate == "D"

UnknownDate == <<"0", "0", "0", "0", "0", "0">>

\* parseDate, were the format not chosen by the length: every input is read as
\* DDMMYY
parseDateOfSix(input) ==
    CHOOSE parsed \in
        {Ok(Date(NumberKey(fullYear \div 100) \o take(skip(stream, 4), 2)
                     \o <<"-">> \o take(skip(stream, 2), 2)
                     \o <<"-">> \o take(stream, 2))) :
         stream \in {StringStream(input)}} : TRUE

\* parseDate(input): the format is chosen by the length of the input
parseDate(input) ==
    CHOOSE parsed \in
        {CASE Len(stream.str) = 6 ->
                \* DDMMYY: day, month, year
                Ok(Date(NumberKey(fullYear \div 100) \o take(skip(stream, 4), 2)
                            \o <<"-">> \o take(skip(stream, 2), 2)
                            \o <<"-">> \o take(stream, 2)))
           [] Len(stream.str) = 8 ->
                \* DDMMYYYY: day, month, year
                Ok(Date(take(skip(stream, 4), 4)
                            \o <<"-">> \o take(skip(stream, 2), 2)
                            \o <<"-">> \o take(stream, 2)))
           [] Len(stream.str) = 10 ->
                \* DDMMYYHHMM: day, month, year, hour, minute
                Ok(Date(take(skip(stream, 4), 2)
                            \o <<"-">> \o take(skip(stream, 2), 2)
                            \o <<"-">> \o take(stream, 2) \o <<" ">>
                            \o take(skip(stream, 6), 2) \o <<":">>
                            \o take(skip(stream, 8), 2) \o <<":", "0", "0">>))
           [] OTHER -> Err("Unknown date format") :
         stream \in {StringStream(input)}} : TRUE

\* date.getFullYear() of a Date built by new Date(string), as the set of the
\* years that an engine can answer. A string that begins with four digits and
\* a hyphen is in the date-time format of ECMAScript: the year is those digits.
\* A string that begins with two digits and a hyphen is not; what Date.parse
\* makes of it is left to the implementation, which reads the digits as a year
\* of the 1900s, as a year of the 2000s, or answers an invalid date (NaN). The
\* clock is not consulted.
constructedYears(date) ==
    LET text == date[2]
    IN  IF AllDigits(Slice(text, 0, 4)) /\ At(text, 4) = "-"
        THEN {DecimalValue(Slice(text, 0, 4))}
        ELSE IF AllDigits(Slice(text, 0, 2)) /\ At(text, 2) = "-"
        THEN {1900 + DecimalValue(Slice(text, 0, 2)),
              2000 + DecimalValue(Slice(text, 0, 2)),
              NaN}
        ELSE {NaN}

\* parseAccount(structure, line); outside the four cases the function returns
\* undefined, which every caller spreads into an object literal: {...undefined}
\* adds no property, as spreading the empty object does
parseAccount(structure, line) ==
    LET stream == StringStream(line)
    IN  CASE structure = 0 ->
               [type |-> structure,
                type_description |-> "Belgian account number",
                number |-> trim(take(stream, 12)),
                currency |-> trim(take(skip(skip(stream, 12), 1), 3)),
                qualification_code |-> trim(take(skip(stream, 16), 1)),
                country |-> trim(take(skip(stream, 17), 2)),
                extension_zone |-> trim(take(skip(skip(stream, 19), 3), 15))]
          [] structure = 1 ->
               [type |-> structure,
                type_description |-> "Foreign account number",
                number |-> trim(take(stream, 34)),
                currency |-> trim(take(skip(stream, 34), 3))]
          [] structure = 2 ->
               [type |-> structure,
                type_description |-> "IBAN of the Belgian account number",
                number |-> trim(take(stream, 31)),
                currency |-> trim(take(skip(skip(stream, 31), 3), 3))]
          [] structure = 3 ->
               [type |-> structure,
                type_description |-> "IBAN of the foreign account number",
                number |-> trim(take(stream, 34)),
                currency |-> trim(take(skip(stream, 34), 3))]
          [] OTHER -> EmptyObject

\* ------------------------------------------------------------------------
\* parseTransactionCode
\* ------------------------------------------------------------------------

\* parseTransactionCode: the lookup of family_description (index.ts 911-929)
familyLookup ==
    (<<"0","1">> :> "Domestic or local SEPA credit transfers")
    @@ (<<"4","1">> :> "International credit transfers - non-SEPA credit transfers")
    @@ (<<"0","2">> :> "Instant SEPA credit transfer")
    @@ (<<"0","3">> :> "Cheques")
    @@ (<<"4","3">> :> "Foreign cheques")
    @@ (<<"0","4">> :> "Cards")
    @@ (<<"0","5">> :> "Direct debit")
    @@ (<<"0","7">> :> "Domestic commercial paper")
    @@ (<<"4","7">> :> "Foreign commercial paper")
    @@ (<<"0","9">> :> "Counter transactions")
    @@ (<<"1","1">> :> "Securities")
    @@ (<<"1","3">> :> "Credit")
    @@ (<<"3","0">> :> "Various transactions")
    @@ (<<"3","5">> :> "Closing (periodical settlements for interest, costs, ...)")
    @@ (<<"8","0">> :> "Separately charged costs and provisions")
    @@ (wildcard :> "<Unknown>")

\* parseTransactionCode: family '01' => match(this.transaction, ...) (index.ts 937-968)
transactionLookup01 ==
    (<<"0","1">> :> "Individual transfer order")
    @@ (<<"0","2">> :> "Individual transfer order initiated by the bank")
    @@ (<<"0","3">> :> "Standing order")
    @@ (<<"0","5">> :> "Payment of wages, etc.")
    @@ (<<"0","7">> :> "Collective transfer")
    @@ (<<"1","3">> :> "Transfer from your account")
    @@ (<<"1","7">> :> "Financial centralisation")
    @@ (<<"3","7">> :> "Costs")
    @@ (<<"3","9">> :> "Your issue circular cheque")
    @@ (<<"4","9">> :> "Cancellation or correction")
    @@ (<<"5","0">> :> "Transfer in your favour")
    @@ (<<"5","1">> :> "Transfer in your favour - initiated by the bank")
    @@ (<<"5","2">> :> "Payment in your favour")
    @@ (<<"5","4">> :> "Unexecutable transfer order")
    @@ (<<"6","0">> :> "Non-presented circular cheque")
    @@ (<<"6","2">> :> "Unpaid postal order")
    @@ (<<"6","4">> :> "Transfer to your account")
    @@ (<<"6","6">> :> "Financial centralization")
    @@ (<<"8","7">> :> "Reimbursement of costs")
    @@ (<<"9","9">> :> "Cancellation or correction")
    @@ (wildcard :> "<Unknown>")

\* parseTransactionCode: family '02' => match(this.transaction, ...) (index.ts 970-998)
transactionLookup02 ==
    (<<"0","1">> :> "Individual transfer order")
    @@ (<<"0","2">> :> "Individual transfer order initiated by the bank")
    @@ (<<"0","3">> :> "Standing order")
    @@ (<<"0","5">> :> "Payment of wages, etc.")
    @@ (<<"0","7">> :> "Collective transfer")
    @@ (<<"1","3">> :> "Transfer from your account")
    @@ (<<"1","7">> :> "Financial centralisation")
    @@ (<<"3","7">> :> "Costs")
    @@ (<<"4","9">> :> "Cancellation or correction")
    @@ (<<"5","0">> :> "Transfer in your favour")
    @@ (<<"5","1">> :> "Transfer in your favour - initiated by the bank")
    @@ (<<"5","2">> :> "Payment in your favour")
    @@ (<<"5","4">> :> "Unexecutable transfer order")
    @@ (<<"6","4">> :> "Transfer to your account")
    @@ (<<"6","6">> :> "Financial centralization")
    @@ (<<"8","7">> :> "Reimbursement of costs")
    @@ (<<"9","9">> :> "Cancellation or correction")
    @@ (wildcard :> "<Unknown>")

\* parseTransactionCode: family '03' => match(this.transaction, ...) (index.ts 1000-1028)
transactionLookup03 ==
    (<<"0","1">> :> "Payment of your cheque")
    @@ (<<"0","5">> :> "Payment of voucher")
    @@ (<<"0","9">> :> "Unpaid voucher")
    @@ (<<"1","1">> :> "Department store cheque")
    @@ (<<"1","5">> :> "Your purchase bank cheque")
    @@ (<<"1","7">> :> "Your certified cheque")
    @@ (<<"3","7">> :> "Cheque-related costs")
    @@ (<<"3","8">> :> "Provisionally unpaid")
    @@ (<<"4","9">> :> "Cancellation or correction")
    @@ (<<"5","2">> :> "First credit of cheques, vouchers, luncheon vouchers, postal orders, credit under usual reserve")
    @@ (<<"5","8">> :> "Remittance of cheques, vouchers, etc. credit after collection")
    @@ (<<"6","0">> :> "Reversal of voucher")
    @@ (<<"6","2">> :> "Reversal of cheque")
    @@ (<<"6","3">> :> "Second credit of unpaid cheque")
    @@ (<<"6","6">> :> "Remittance of cheque by your branch - credit under usual reserve")
    @@ (<<"8","7">> :> "Reimbursement of cheque-related costs")
    @@ (<<"9","9">> :> "Cancellation or correction")
    @@ (wildcard :> "<Unknown>")

\* parseTransactionCode: family '04' => match(this.transaction, ...) (index.ts 1030-1063)
transactionLookup04 ==
    (<<"0","1">> :> "Loading a GSM card")
    @@ (<<"0","2">> :> "Payment by means of a payment card within the Eurozone")
    @@ (<<"0","3">> :> "Settlement credit cards")
    @@ (<<"0","4">> :> "Cash withdrawal from an ATM")
    @@ (<<"0","5">> :> "Loading Proton")
    @@ (<<"0","6">> :> "Payment with tank card")
    @@ (<<"0","7">> :> "Payment by GSM")
    @@ (<<"0","8">> :> "Payment by means of a payment card outside the Eurozone")
    @@ (<<"0","9">> :> "Upload of prepaid card")
    @@ (<<"1","0">> :> "Correction for prepaid card")
    @@ (<<"3","7">> :> "Costs")
    @@ (<<"4","9">> :> "Cancellation or correction")
    @@ (<<"5","0">> :> "Credit after a payment at a terminal")
    @@ (<<"5","1">> :> "Unloading Proton")
    @@ (<<"5","2">> :> "Loading GSM cards")
    @@ (<<"5","3">> :> "Cash deposit at an ATM")
    @@ (<<"5","4">> :> "Download of prepaid card")
    @@ (<<"5","5">> :> "Income from payments by GSM")
    @@ (<<"5","6">> :> "Correction for prepaid card")
    @@ (<<"6","8">> :> "Credit after Proton payments")
    @@ (<<"8","7">> :> "Reimbursement of costs")
    @@ (<<"9","9">> :> "Cancellation or correction")
    @@ (wildcard :> "<Unknown>")

\* parseTransactionCode: family '05' => match(this.transaction, ...) (index.ts 1065-1088)
transactionLookup05 ==
    (<<"0","1">> :> "Payment")
    @@ (<<"0","3">> :> "Unpaid debt")
    @@ (<<"0","5">> :> "Reimbursement")
    @@ (<<"3","7">> :> "Costs")
    @@ (<<"4","9">> :> "Cancellation or correction")
    @@ (<<"5","0">> :> "Credit after collection")
    @@ (<<"5","2">> :> "Credit under usual reserve")
    @@ (<<"5","4">> :> "Reimbursement")
    @@ (<<"5","6">> :> "Unexecutable reimbursement")
    @@ (<<"5","8">> :> "Reversal")
    @@ (<<"8","7">> :> "Reimbursement of costs")
    @@ (<<"9","9">> :> "Cancellation or correction")
    @@ (wildcard :> "<Unknown>")

\* parseTransactionCode: family '07' => match(this.transaction, ...) (index.ts 1090-1117)
transactionLookup07 ==
    (<<"0","1">> :> "Payment commercial paper")
    @@ (<<"0","5">> :> "Commercial paper claimed back")
    @@ (<<"0","6">> :> "Extension of maturity date")
    @@ (<<"0","7">> :> "Unpaid commercial paper")
    @@ (<<"0","8">> :> "Payment in advance")
    @@ (<<"0","9">> :> "Agio on supplier's bill")
    @@ (<<"3","7">> :> "Costs related to commercial paper")
    @@ (<<"3","9">> :> "Return of an irregular bill of exchange")
    @@ (<<"4","9">> :> "Cancellation or correction")
    @@ (<<"5","0">> :> "Remittance of commercial paper - credit after collection")
    @@ (<<"5","2">> :> "Remittance of commercial paper - credit under usual reserve")
    @@ (<<"5","4">> :> "Remittance of commercial paper - for discount")
    @@ (<<"5","6">> :> "Remittance of supplier's bill with guarantee")
    @@ (<<"5","8">> :> "Remittance of supplier's bill without guarantee")
    @@ (<<"8","7">> :> "Reimbursement of costs")
    @@ (<<"9","9">> :> "Cancellation or correction")
    @@ (wildcard :> "<Unknown>")

\* parseTransactionCode: family '09' => match(this.transaction, ...) (index.ts 1119-1149)
transactionLookup09 ==
    (<<"0","1">> :> "Cash withdrawal")
    @@ (<<"0","5">> :> "Purchase of foreign bank notes")
    @@ (<<"0","7">> :> "Purchase of gold/pieces")
    @@ (<<"0","9">> :> "Purchase of petrol coupons")
    @@ (<<"1","3">> :> "Cash withdrawal by your branch or agents")
    @@ (<<"1","7">> :> "Purchase of fiscal stamps")
    @@ (<<"1","9">> :> "Difference in payment")
    @@ (<<"2","5">> :> "Purchase of traveller's cheque")
    @@ (<<"3","7">> :> "Costs")
    @@ (<<"4","9">> :> "Cancellation or correction")
    @@ (<<"5","0">> :> "Cash payment")
    @@ (<<"5","2">> :> "Payment night safe")
    @@ (<<"5","8">> :> "Payment by your branch/agents")
    @@ (<<"6","0">> :> "Sale of foreign bank notes")
    @@ (<<"6","2">> :> "Sale of gold/pieces under usual reserve")
    @@ (<<"6","8">> :> "Difference in payment")
    @@ (<<"7","0">> :> "Sale of traveller's cheque")
    @@ (<<"8","7">> :> "Reimbursement of costs")
    @@ (<<"9","9">> :> "Cancellation or correction")
    @@ (wildcard :> "<Unknown>")

\* parseTransactionCode: family '11' => match(this.transaction, ...) (index.ts 1151-1187)
transactionLookup11 ==
    (<<"0","1">> :> "Purchase of securities")
    @@ (<<"0","2">> :> "Tenders")
    @@ (<<"0","3">> :> "Subscription to securities")
    @@ (<<"0","4">> :> "Issues")
    @@ (<<"0","5">> :> "Partial payment subscription")
    @@ (<<"0","6">> :> "Share option plan - exercising an option")
    @@ (<<"0","9">> :> "Settlement of securities")
    @@ (<<"1","1">> :> "Payable coupons/repayable securities")
    @@ (<<"1","3">> :> "Your repurchase of issue")
    @@ (<<"1","5">> :> "Interim interest on subscription")
    @@ (<<"1","7">> :> "Management fee")
    @@ (<<"1","9">> :> "Regularisation costs")
    @@ (<<"3","7">> :> "Costs")
    @@ (<<"4","9">> :> "Cancellation or correction")
    @@ (<<"5","0">> :> "Sale of securities")
    @@ (<<"5","1">> :> "Tender")
    @@ (<<"5","2">> :> "Payment of coupons from a deposit or settlement of coupons delivered over the counter - credit under usual reserve")
    @@ (<<"5","8">> :> "Repayable securities from a deposit or delivered at the counter - credit under usual reserve")
    @@ (<<"6","2">> :> "Interim interest on subscription")
    @@ (<<"6","4">> :> "Your issue")
    @@ (<<"6","6">> :> "Retrocession of issue commission")
    @@ (<<"6","8">> :> "Compensation for missing coupon")
    @@ (<<"7","0">> :> "Settlement of securities")
    @@ (<<"8","7">> :> "Reimbursement of costs")
    @@ (<<"9","9">> :> "Cancellation or correction")
    @@ (wildcard :> "<Unknown>")

\* parseTransactionCode: family '13' => match(this.transaction, ...) (index.ts 1189-1222)
transactionLookup13 ==
    (<<"0","1">> :> "Short-term loan")
    @@ (<<"0","2">> :> "Long-term loan")
    @@ (<<"0","5">> :> "Settlement of fixed advance")
    @@ (<<"0","7">> :> "Your repayment instalment")
    @@ (<<"1","1">> :> "Your repayment mortgage loan")
    @@ (<<"1","3">> :> "Settlement of bank acceptances")
    @@ (<<"1","5">> :> "Your repayment hire-purchase and similar claims")
    @@ (<<"1","9">> :> "Documentary import credits")
    @@ (<<"2","1">> :> "Other credit applications")
    @@ (<<"3","7">> :> "Credit-related costs")
    @@ (<<"4","9">> :> "Cancellation or correction")
    @@ (<<"5","0">> :> "Settlement of instalment credit")
    @@ (<<"5","4">> :> "Fixed advance - capital and interest")
    @@ (<<"5","5">> :> "Fixed advance - interest only")
    @@ (<<"5","6">> :> "Subsidy")
    @@ (<<"6","0">> :> "Settlement of mortgage loan")
    @@ (<<"6","2">> :> "Term loan")
    @@ (<<"6","8">> :> "Documentary export credits")
    @@ (<<"7","0">> :> "Settlement of discount bank acceptance")
    @@ (<<"8","7">> :> "Reimbursement of costs")
    @@ (<<"9","9">> :> "Cancellation or correction")
    @@ (wildcard :> "<Unknown>")

\* parseTransactionCode: family '30' => match(this.transaction, ...) (index.ts 1224-1250)
transactionLookup30 ==
    (<<"0","1">> :> "Spot purchase of foreign exchange")
    @@ (<<"0","3">> :> "Forward purchase of foreign exchange")
    @@ (<<"0","5">> :> "Capital and/or interest term investment")
    @@ (<<"3","3">> :> "Value (date) correction")
    @@ (<<"3","7">> :> "Costs")
    @@ (<<"3","9">> :> "Undefined transaction")
    @@ (<<"4","9">> :> "Cancellation or correction")
    @@ (<<"5","0">> :> "Spot sale of foreign exchange")
    @@ (<<"5","2">> :> "Forward sale of foreign exchange")
    @@ (<<"5","4">> :> "Capital and/or interest term investment")
    @@ (<<"5","5">> :> "Interest term investment")
    @@ (<<"8","3">> :> "Value (date) correction")
    @@ (<<"8","7">> :> "Reimbursement of costs")
    @@ (<<"8","9">> :> "Undefined transaction")
    @@ (<<"9","9">> :> "Cancellation or correction")
    @@ (wildcard :> "<Unknown>")

\* parseTransactionCode: family '35' => match(this.transaction, ...) (index.ts 1252-1269)
transactionLookup35 ==
    (<<"0","1">> :> "Closing")
    @@ (<<"3","7">> :> "Costs")
    @@ (<<"4","9">> :> "Cancellation or correction")
    @@ (<<"5","0">> :> "Closing")
    @@ (<<"8","7">> :> "Reimbursement of costs")
    @@ (<<"9","9">> :> "Cancellation or correction")
    @@ (wildcard :> "<Unknown>")

\* parseTransactionCode: family '41' => match(this.transaction, ...) (index.ts 1271-1296)
transactionLookup41 ==
    (<<"0","1">> :> "Transfer")
    @@ (<<"0","3">> :> "Standing order")
    @@ (<<"0","5">> :> "Collective payments of wages")
    @@ (<<"0","7">> :> "Collective transfers")
    @@ (<<"1","3">> :> "Transfer from your account")
    @@ (<<"1","7">> :> "Financial centralisation (debit)")
    @@ (<<"3","7">> :> "Costs relating to outgoing foreign transfers and non-SEPA transfers")
    @@ (<<"3","8">> :> "Costs relating to incoming foreign and non-SEPA transfers")
    @@ (<<"4","9">> :> "Cancellation or correction")
    @@ (<<"5","0">> :> "Transfer")
    @@ (<<"6","4">> :> "Transfer to your account")
    @@ (<<"6","6">> :> "Financial centralisation (credit)")
    @@ (<<"8","7">> :> "Reimbursement of costs")
    @@ (<<"9","9">> :> "Cancellation or correction")
    @@ (wildcard :> "<Unknown>")

\* parseTransactionCode: family '43' => match(this.transaction, ...) (index.ts 1298-1319)
transactionLookup43 ==
    (<<"0","1">> :> "Payment of a foreign cheque")
    @@ (<<"0","7">> :> "Unpaid foreign cheque")
    @@ (<<"1","5">> :> "Purchase of an international bank cheque")
    @@ (<<"3","7">> :> "Costs relating to payment of foreign cheques")
    @@ (<<"4","9">> :> "Cancellation or correction")
    @@ (<<"5","2">> :> "Remittance of foreign cheque credit under usual reserve")
    @@ (<<"5","8">> :> "Remittance of foreign cheque credit after collection")
    @@ (<<"6","2">> :> "Reversal of cheques")
    @@ (<<"8","7">> :> "Reimbursement of costs")
    @@ (<<"9","9">> :> "Cancellation or correction")
    @@ (wildcard :> "<Unknown>")

\* parseTransactionCode: family '47' => match(this.transaction, ...) (index.ts 1321-1351)
transactionLookup47 ==
    (<<"0","1">> :> "Payment of foreign bill")
    @@ (<<"0","5">> :> "Bill claimed back")
    @@ (<<"0","6">> :> "Extension")
    @@ (<<"0","7">> :> "Unpaid foreign bill")
    @@ (<<"1","1">> :> "Payment documents abroad")
    @@ (<<"1","3">> :> "Discount foreign supplier's bills")
    @@ (<<"1","4">> :> "Warrant fallen due")
    @@ (<<"3","7">> :> "Costs relating to the payment of a foreign bill")
    @@ (<<"4","9">> :> "Cancellation or correction")
    @@ (<<"5","0">> :> "Remittance of foreign bill credit after collection")
    @@ (<<"5","2">> :> "Remittance of foreign bill credit under usual reserve")
    @@ (<<"5","4">> :> "Discount abroad")
    @@ (<<"5","6">> :> "Remittance of guaranteed foreign supplier's bill")
    @@ (<<"5","8">> :> "Remittance of foreign supplier's bill without guarantee")
    @@ (<<"6","0">> :> "Remittance of documents abroad - credit under usual reserve")
    @@ (<<"6","2">> :> "Remittance of documents abroad - credit after collection")
    @@ (<<"6","4">> :> "Warrant")
    @@ (<<"8","7">> :> "Reimbursement of costs")
    @@ (<<"9","9">> :> "Cancellation or correction")
    @@ (wildcard :> "<Unknown>")

\* parseTransactionCode: family '80' => match(this.transaction, ...) (index.ts 1353-1397)
transactionLookup80 ==
    (<<"0","2">> :> "Costs relating to electronic output")
    @@ (<<"0","4">> :> "Costs for holding a documentary cash credit")
    @@ (<<"0","6">> :> "Damage relating to bills and cheques")
    @@ (<<"0","7">> :> "Insurance costs")
    @@ (<<"0","8">> :> "Registering compensation for savings accounts")
    @@ (<<"0","9">> :> "Postage")
    @@ (<<"1","0">> :> "Purchase of Smartcard")
    @@ (<<"1","1">> :> "Costs for the safe custody of correspondence")
    @@ (<<"1","2">> :> "Costs for opening a bank guarantee")
    @@ (<<"1","3">> :> "Renting of safes")
    @@ (<<"1","4">> :> "Handling costs instalment credit")
    @@ (<<"1","5">> :> "Night safe")
    @@ (<<"1","6">> :> "Bank confirmation to revisor or accountant")
    @@ (<<"1","7">> :> "Charge for safe custody")
    @@ (<<"1","8">> :> "Trade information")
    @@ (<<"1","9">> :> "Special charge for safe custody")
    @@ (<<"2","0">> :> "Drawing up a certificate")
    @@ (<<"2","1">> :> "Pay-packet charges")
    @@ (<<"2","2">> :> "Management/custody")
    @@ (<<"2","3">> :> "Research costs")
    @@ (<<"2","4">> :> "Participation in and management of interest refund system")
    @@ (<<"2","5">> :> "Renting of direct debit box")
    @@ (<<"2","6">> :> "Travel insurance premium")
    @@ (<<"2","7">> :> "Subscription fee")
    @@ (<<"2","9">> :> "Information charges")
    @@ (<<"3","1">> :> "Writ service fee")
    @@ (<<"3","3">> :> "Miscellaneous fees and commissions")
    @@ (<<"3","5">> :> "Costs")
    @@ (<<"3","7">> :> "Access right to database")
    @@ (<<"3","9">> :> "Surety fee")
    @@ (<<"4","1">> :> "Research costs")
    @@ (<<"4","3">> :> "Printing of forms")
    @@ (<<"4","5">> :> "Documentary credit charges")
    @@ (<<"4","7">> :> "Charging fees for transactions")
    @@ (<<"4","9">> :> "Cancellation or correction")
    @@ (<<"9","9">> :> "Cancellation or correction")
    @@ (wildcard :> "<Unknown>")

\* parseTransactionCode: the lookup of transaction_description, each family a function
\* returning the match over the transaction (index.ts 933-1400)
transactionFamilyLookup ==
    (<<"0","1">> :> transactionLookup01)
    @@ (<<"0","2">> :> transactionLookup02)
    @@ (<<"0","3">> :> transactionLookup03)
    @@ (<<"0","4">> :> transactionLookup04)
    @@ (<<"0","5">> :> transactionLookup05)
    @@ (<<"0","7">> :> transactionLookup07)
    @@ (<<"0","9">> :> transactionLookup09)
    @@ (<<"1","1">> :> transactionLookup11)
    @@ (<<"1","3">> :> transactionLookup13)
    @@ (<<"3","0">> :> transactionLookup30)
    @@ (<<"3","5">> :> transactionLookup35)
    @@ (<<"4","1">> :> transactionLookup41)
    @@ (<<"4","3">> :> transactionLookup43)
    @@ (<<"4","7">> :> transactionLookup47)
    @@ (<<"8","0">> :> transactionLookup80)
    @@ (wildcard :> "<Unknown>")

\* parseTransactionCode: the lookup of category_description (index.ts 1406-1535)
categoryLookup ==
    (<<"0","0","0">> :> "Net amount")
    @@ (<<"0","0","1">> :> "Interest received")
    @@ (<<"0","0","2">> :> "Interest paid")
    @@ (<<"0","0","3">> :> "Credit commision")
    @@ (<<"0","0","4">> :> "Postage")
    @@ (<<"0","0","5">> :> "Renting of letterbox")
    @@ (<<"0","0","6">> :> "Various fees/commissions")
    @@ (<<"0","0","7">> :> "Access right to database")
    @@ (<<"0","0","8">> :> "Information charges")
    @@ (<<"0","0","9">> :> "Travelling expenses")
    @@ (<<"0","1","0">> :> "Writ service fee")
    @@ (<<"0","1","1">> :> "VAT")
    @@ (<<"0","1","2">> :> "Exchange commission")
    @@ (<<"0","1","3">> :> "Payment commission")
    @@ (<<"0","1","4">> :> "Collection commission")
    @@ (<<"0","1","5">> :> "Correspondent charges")
    @@ (<<"0","1","6">> :> "Negative interest")
    @@ (<<"0","1","7">> :> "Research costs")
    @@ (<<"0","1","8">> :> "Tental guarantee charges")
    @@ (<<"0","1","9">> :> "Tax on physical delivery")
    @@ (<<"0","2","0">> :> "Costs of physical delivery")
    @@ (<<"0","2","1">> :> "Costs for drawing up a bank cheque")
    @@ (<<"0","2","2">> :> "Priority costs")
    @@ (<<"0","2","3">> :> "Exercising fee")
    @@ (<<"0","2","4">> :> "Growth premium")
    @@ (<<"0","2","5">> :> "Individual entry for exchange charges")
    @@ (<<"0","2","6">> :> "Handling commission")
    @@ (<<"0","2","7">> :> "Charges for unpaid bills")
    @@ (<<"0","2","8">> :> "Fidelity premium")
    @@ (<<"0","2","9">> :> "Protest charges")
    @@ (<<"0","3","0">> :> "Account insurance")
    @@ (<<"0","3","1">> :> "Charges foreign cheque")
    @@ (<<"0","3","2">> :> "Drawing up a circular cheque")
    @@ (<<"0","3","3">> :> "Charges for a foreign bill")
    @@ (<<"0","3","4">> :> "Reinvestment fee")
    @@ (<<"0","3","5">> :> "Charges foreign documentary bill")
    @@ (<<"0","3","6">> :> "Costs relating to a refused cheque")
    @@ (<<"0","3","7">> :> "Commission for handling charges")
    @@ (<<"0","3","9">> :> "Telecommunications")
    @@ (<<"0","4","1">> :> "Credit card costs")
    @@ (<<"0","4","2">> :> "Payment card costs")
    @@ (<<"0","4","3">> :> "Insurance costs")
    @@ (<<"0","4","5">> :> "Handling costs")
    @@ (<<"0","4","7">> :> "Charges extension bill")
    @@ (<<"0","4","9">> :> "Fiscal stamps/stamp duty")
    @@ (<<"0","5","0">> :> "Capital term investment")
    @@ (<<"0","5","1">> :> "Withholding tax")
    @@ (<<"0","5","2">> :> "")
    @@ (<<"0","5","3">> :> "Printing of forms")
    @@ (<<"0","5","5">> :> "Repayment loan or credit capital")
    @@ (<<"0","5","7">> :> "Interest subsidy")
    @@ (<<"0","5","8">> :> "Capital premium")
    @@ (<<"0","5","9">> :> "Default interest")
    @@ (<<"0","6","1">> :> "Charging fees for transactions")
    @@ (<<"0","6","3">> :> "Rounding differences")
    @@ (<<"0","6","5">> :> "Interest payment advice")
    @@ (<<"0","6","6">> :> "Fixed loan advance - reimbursement")
    @@ (<<"0","6","7">> :> "Fixed loan advance - extension")
    @@ (<<"0","6","8">> :> "Countervalue of an entry")
    @@ (<<"0","6","9">> :> "Forward arbitrage contracts: sum to be supplied by customer")
    @@ (<<"0","7","0">> :> "Forward arbitrage contracts: sum to be supplied by bank")
    @@ (<<"0","7","1">> :> "Fixed loan advance - availability")
    @@ (<<"0","7","2">> :> "Countervalue of commission to third party")
    @@ (<<"0","7","3">> :> "Costs of ATM abroad")
    @@ (<<"0","7","4">> :> "Mailing costs")
    @@ (<<"1","0","0">> :> "Gross amount")
    @@ (<<"2","0","0">> :> "Overall documentary credit charges")
    @@ (<<"2","0","1">> :> "Advice notice commission")
    @@ (<<"2","0","2">> :> <<"Advising commission", "Additional advising commission">>)
    @@ (<<"2","0","3">> :> "Confirmation fee\nAdditional confirmation fee\nCommitment fee\nFlat fee\nConfirmation reservation commission\nAdditional reservation commission")
    @@ (<<"2","0","4">> :> "Amendment fee")
    @@ (<<"2","0","5">> :> "Documentary payment commission\nDocument commission\nDrawdown fee\nNegotiation fee")
    @@ (<<"2","0","6">> :> "Surety fee/payment under reserve")
    @@ (<<"2","0","7">> :> "Non-conformity fee")
    @@ (<<"2","0","8">> :> "Commitment fee deferred payment")
    @@ (<<"2","0","9">> :> "Transfer commission")
    @@ (<<"2","1","0">> :> "Commitment fee")
    @@ (<<"2","1","1">> :> <<"Credit arrangement fee", "Additional credit arrangement fee">>)
    @@ (<<"2","1","2">> :> "Warehousing fee")
    @@ (<<"2","1","3">> :> "Financing fee")
    @@ (<<"2","1","4">> :> "Issue commission (delivery order)")
    @@ (<<"4","0","0">> :> "Acceptance fee")
    @@ (<<"4","0","1">> :> "Visa charges")
    @@ (<<"4","0","2">> :> "Certification costs")
    @@ (<<"4","0","3">> :> "Minimum discount rate")
    @@ (<<"4","0","4">> :> "Discount commission")
    @@ (<<"4","0","5">> :> "Bill guarantee commission")
    @@ (<<"4","0","6">> :> "Collection charges")
    @@ (<<"4","0","7">> :> "Costs Article 45")
    @@ (<<"4","0","8">> :> "Cover commission")
    @@ (<<"4","0","9">> :> "Safe deposit charges")
    @@ (<<"4","1","0">> :> "Reclamation charges")
    @@ (<<"4","1","1">> :> "Fixed collection charge")
    @@ (<<"4","1","2">> :> "Advice of expiry charges")
    @@ (<<"4","1","3">> :> "Acceptance charges")
    @@ (<<"4","1","4">> :> "Regularisation charges")
    @@ (<<"4","1","5">> :> "Surety fee")
    @@ (<<"4","1","6">> :> "Charges for the deposit of security")
    @@ (<<"4","1","8">> :> "Endorsement commission")
    @@ (<<"4","1","9">> :> "Bank service fee")
    @@ (<<"4","2","0">> :> "Retention charges")
    @@ (<<"4","2","5">> :> "Foreign broker's commission")
    @@ (<<"4","2","6">> :> "Belgian broker's commission")
    @@ (<<"4","2","7">> :> "Belgian Stock Exchange tax")
    @@ (<<"4","2","8">> :> "Interest accrued")
    @@ (<<"4","2","9">> :> "Foreign Stock Exchange tax")
    @@ (<<"4","3","0">> :> "Recovery of foreign tax")
    @@ (<<"4","3","1">> :> "Delivery of a copy")
    @@ (<<"4","3","5">> :> "Tax on physical securities")
    @@ (<<"4","3","6">> :> "Supplementary tax")
    @@ (<<"4","3","7">> :> "Speculation tax")
    @@ (<<"4","3","8">> :> "Securities account tax")
    @@ (wildcard :> "<Unknown>")

\* parseTransactionCode(input): the stored fields; the three descriptions are
\* getters, computed when they are read
parseTransactionCode(input) ==
    LET stream == StringStream(input)
    IN  [type |-> take(stream, 1),
         family |-> take(skip(stream, 1), 2),
         transaction |-> take(skip(stream, 3), 2),
         category |-> take(skip(stream, 5), 3)]

\* get family_description()
family_description(this) == match(this.family, familyLookup)

\* get transaction_description(): the handler of a known family is a function,
\* which match calls: it returns the match over the transaction
transaction_description(this) ==
    IF this.family \in DOMAIN transactionFamilyLookup \ {wildcard}
    THEN match(this.transaction, transactionFamilyLookup[this.family])
    ELSE match(this.family, transactionFamilyLookup)

\* get category_description()
category_description(this) == match(this.category, categoryLookup)


\* ------------------------------------------------------------------------
\* The record decoders
\* ------------------------------------------------------------------------

\* the first exception among the outcomes of the calls an object literal makes,
\* in the order of the source
AnyThrows(outcomes) == \E k \in 1..Len(outcomes) : IsErr(outcomes[k])

FirstThrown(outcomes) ==
    outcomes[MinOf({k \in 1..Len(outcomes) : IsErr(outcomes[k])})]

\* str.split(/\s+/g)
RECURSIVE splitWhiteSpace(_)
splitWhiteSpace(str) ==
    CHOOSE parts \in
        {IF \A k \in 1..Len(s) : s[k] \notin WhiteSpace THEN <<s>>
         ELSE LET first == CHOOSE k \in 1..Len(s) :
                               /\ s[k] \in WhiteSpace
                               /\ \A j \in 1..(k - 1) : s[j] \notin WhiteSpace
                  after == CHOOSE j \in (first + 1)..(Len(s) + 1) :
                               /\ j = Len(s) + 1 \/ s[j] \notin WhiteSpace
                               /\ \A m \in (first + 1)..(j - 1) : s[m] \in WhiteSpace
              IN  <<SubSeq(s, 1, first - 1)>>
                      \o splitWhiteSpace(SubSeq(s, after, Len(s))) :
         s \in {str}} : TRUE

\* Header record 0: parseHeader(new StringStream(line)); the fields are read in
\* the order of the object literal, each from where the one before it stopped
parseHeader(stream) ==
    LET s1 == skip(stream, 1)               \* after record_identification
        s2 == skip(skip(s1, 4), 6)          \* after date
        s3 == skip(s2, 3)                   \* after bank_identification_number
        s4 == skip(s3, 2)                   \* after application_code
        s5 == skip(s4, 1)                   \* after duplicate
        s6 == skip(skip(s5, 7), 10)         \* after file_reference
        s7 == skip(s6, 26)                  \* after account.name
        s8 == skip(s7, 11)                  \* after account.bic
        s9 == skip(s8, 11)                  \* after account.identification_number
        s10 == skip(skip(s9, 1), 5)         \* after external_application_code
        s11 == skip(s10, 16)                \* after transaction_reference
        s12 == skip(s11, 16)                \* after related_reference
        returned(date) ==
            IF IsErr(date) THEN date
            ELSE Ok([record_identification |-> take(stream, 1),
                     date |-> date.value,
                     bank_identification_number |-> take(s2, 3),
                     application_code |-> take(s3, 2),
                     duplicate |-> (take(s4, 1) = <<Duplicate>>),
                     file_reference |-> take(skip(s5, 7), 10),
                     account |-> [name |-> trim(take(s6, 26)),
                                  bic |-> trim(take(s7, 11)),
                                  identification_number |-> take(s8, 11)],
                     external_application_code |-> take(skip(s9, 1), 5),
                     transaction_reference |-> trim(take(s10, 16)),
                     related_reference |-> trim(take(s11, 16)),
                     version |-> Number(take(skip(s12, 7), 1))])
    IN  Call(returned, parseDate(take(skip(s1, 4), 6)))

\* Data record 1, "old balance"
parseOldBalance(line) ==
    LET returned(called) ==
            IF AnyThrows(called) THEN FirstThrown(called)
            ELSE Ok([record_identification |-> At(line, 0),
                     account |-> parseAccount(NumberOfChar(At(line, 1)),
                                              Slice(line, 5, 42))
                                     @@ [name |-> trim(Slice(line, 64, 90)),
                                         description |-> trim(Slice(line, 90, 125))],
                     sequence_number |-> Slice(line, 2, 5),
                     balance |-> Times(Number(Slice(line, 43, 58)), called[1].value),
                     date |-> called[2].value,
                     coda_sequence_number |-> Slice(line, 125, 128)])
    IN  Call(returned, <<match(CharKey(At(line, 42)), signLookup),
                         parseDate(Slice(line, 58, 64))>>)

\* the lookup { '0': 'unstructured', '1': 'structured' } of communication_type
communicationTypeLookup == (<<"0">> :> "unstructured") @@ (<<"1">> :> "structured")

\* the value date, were 000000 parsed as any other date
valueDateParsed(text) == parseDate(text)

\* value_date of a movement record 2.1:
\* text === UnknownDate ? null : parseDate(text)
valueDate(text) == IF text = UnknownDate THEN Ok(Null) ELSE parseDate(text)

\* Data record 2.1, "movement record"
parseMovement21(line) ==
    LET returned(called) ==
            IF AnyThrows(called) THEN FirstThrown(called)
            ELSE Ok([record_identification |-> At(line, 0),
                     article_code |-> At(line, 1),
                     sequence |-> Slice(line, 2, 6),
                     detail_sequence |-> Slice(line, 6, 10),
                     reference_number |-> trim(Slice(line, 10, 31)),
                     amount |-> Quotient(Times(Number(Slice(line, 32, 47)),
                                               IF At(line, 31) = SignCredit
                                               THEN 1 ELSE -1),
                                         1000),
                     value_date |-> called[1].value,
                     transaction_code |-> parseTransactionCode(Slice(line, 53, 61)),
                     communication_type |-> called[2].value,
                     communication |-> Slice(line, 62, 115),
                     entry_date |-> called[3].value,
                     sequence_number |-> Slice(line, 121, 124),
                     globalisation_code |-> At(line, 124),
                     next_code |-> At(line, 125),
                     link_code |-> At(line, 127)])
    IN  Call(returned, <<\* value_date
                         valueDate(Slice(line, 47, 53)),
                         \* communication_type
                         match(CharKey(At(line, 61)), communicationTypeLookup),
                         \* entry_date
                         parseDate(Slice(line, 115, 121))>>)

\* Data record 2.2, "movement record"; line[112].trim() is a TypeError when the
\* line has no character 112
parseMovement22(line) ==
    IF At(line, 112) = Undefined
    THEN Err("TypeError: Cannot read properties of undefined (reading 'trim')")
    ELSE Ok([record_identification |-> At(line, 0),
             article_code |-> At(line, 1),
             sequence_number |-> Slice(line, 2, 6),
             detail_sequence |-> Slice(line, 6, 10),
             communication |-> Slice(line, 10, 63),
             customer_reference |-> trim(Slice(line, 63, 98)),
             bic |-> trim(Slice(line, 98, 109)),
             r_transaction_type |-> trim(<<At(line, 112)>>),
             r_reason |-> trim(Slice(line, 113, 117)),
             category_purpose |-> trim(Slice(line, 117, 121)),
             purpose |-> trim(Slice(line, 121, 125)),
             next_code |-> At(line, 125),
             link_code |-> At(line, 127)])

\* Data record 2.3, "movement record"
parseMovement23(line) ==
    LET returned(parts) ==
            Ok([record_identification |-> At(line, 0),
                article_code |-> At(line, 1),
                sequence |-> Slice(line, 2, 6),
                detail_sequence |-> Slice(line, 6, 10),
                counterparty |->
                    [account |-> [\* accountNumber = '', accountCurrency = ''
                                  number |-> parts[1],
                                  currency |-> IF Len(parts) >= 2 THEN parts[2]
                                               ELSE <<>>],
                     name |-> trim(Slice(line, 47, 82))],
                communication |-> Slice(line, 82, 115),
                next_code |-> At(line, 125),
                link_code |-> At(line, 127)])
    IN  Call(returned, splitWhiteSpace(trim(Slice(line, 10, 47))))

\* Data record 3.1, "information record"
parseAdditionalInformation31(line) ==
    LET communication_type == match(CharKey(At(line, 39)), communicationTypeLookup)
    IN  IF IsErr(communication_type) THEN communication_type
        ELSE Ok([record_identification |-> At(line, 0),
                 article_code |-> At(line, 1),
                 sequence |-> Slice(line, 2, 6),
                 detail_sequence |-> Slice(line, 6, 10),
                 reference_number |-> trim(Slice(line, 10, 31)),
                 transaction_code |-> parseTransactionCode(Slice(line, 31, 39)),
                 communication_type |-> communication_type.value,
                 communication |-> Slice(line, 40, 113),
                 next_code |-> At(line, 125),
                 link_code |-> At(line, 127)])

\* Data record 3.2, "information record"
parseAdditionalInformation32(line) ==
    Ok([record_identification |-> At(line, 0),
        article_code |-> At(line, 1),
        sequence |-> Slice(line, 2, 6),
        detail_sequence |-> Slice(line, 6, 10),
        communication |-> Slice(line, 10, 115),
        next_code |-> At(line, 125),
        link_code |-> At(line, 127)])

\* Data record 3.3, "information record"
parseAdditionalInformation33(line) ==
    Ok([record_identification |-> At(line, 0),
        article_code |-> At(line, 1),
        sequence |-> Slice(line, 2, 6),
        detail_sequence |-> Slice(line, 6, 10),
        communication |-> Slice(line, 10, 100),
        next_code |-> At(line, 125),
        link_code |-> At(line, 127)])

\* Data record 8, "new balance"
parseNewBalance(line, accountStructureData) ==
    LET returned(called) ==
            IF AnyThrows(called) THEN FirstThrown(called)
            ELSE Ok([record_identification |-> At(line, 0),
                     sequence_number |-> Slice(line, 1, 4),
                     account |-> IF accountStructureData = Null THEN EmptyObject
                                 ELSE parseAccount(accountStructureData[2],
                                                   Slice(line, 4, 41)),
                     balance |-> Quotient(Times(Number(Slice(line, 42, 57)),
                                                called[1].value),
                                          1000),
                     date |-> called[2].value,
                     link_code |-> At(line, 127)])
    IN  Call(returned, <<match(CharKey(At(line, 41)), signLookup),
                         parseDate(Slice(line, 57, 63))>>)

\* Data record 4, "free communication"
parseFreeCommunication(line) ==
    Ok([record_identification |-> At(line, 0),
        sequence |-> Slice(line, 2, 6),
        detail_sequence |-> Slice(line, 6, 10),
        text |-> trim(Slice(line, 32, 112)),
        link_code |-> At(line, 127)])

\* Trailer record 9
parseTrailer(line) ==
    Ok([record_identification |-> At(line, 0),
        number_of_records |-> Number(Slice(line, 16, 22)),
        debit_amount |-> Quotient(Number(Slice(line, 22, 37)), 1000),
        credit_amount |-> Quotient(Number(Slice(line, 37, 52)), 1000)])


\* ------------------------------------------------------------------------
\* The structured communications
\* ------------------------------------------------------------------------

\* the object a decoder of a structured communication returns, or its exception
Payload(outcome) ==
    CHOOSE returned \in
        {IF IsErr(decoded) THEN decoded ELSE Ok(Obj(decoded.value)) :
         decoded \in {outcome}} : TRUE

\* reading a getter of a payload: match(this.<of>, lookup); a number is looked up
\* by its string
readGetter(payload, g) ==
    match(IF g.numeric THEN NumberKey(payload[g.of]) ELSE payload[g.of], g.lookup)

\* parseCommunicationDetail, case '001' (index.ts 1558-1577): stream is the stream
\* after the type was taken, skip(stream, k) the stream after the k characters
\* that the fields before took
parseCommunicationDetail001(stream) ==
    Ok([name |-> trim(take(stream, 70)),
        address |-> collapseSpaces(trim(take(skip(stream, 70), 35))),
        locality |-> collapseSpaces(trim(take(skip(stream, 105), 35))),
        identification_code |-> trim(take(skip(stream, 140), 35))])

\* parseCommunicationDetail, case '002', '004', '005' (index.ts 1580-1592): stream is the stream
\* after the type was taken, skip(stream, k) the stream after the k characters
\* that the fields before took
parseCommunicationDetail002(stream) ==
    Ok([value |-> join(<<trim(take(stream, 35)),
                         trim(take(skip(stream, 35), 35)),
                         trim(take(skip(stream, 70), 35)),
                         trim(take(skip(stream, 105), 35))>>, <<"\n">>)])

\* parseCommunicationDetail, case '006' (index.ts 1595-1618): stream is the stream
\* after the type was taken, skip(stream, k) the stream after the k characters
\* that the fields before took
parseCommunicationDetail006(stream) ==
    LET returned(called) ==
            IF AnyThrows(called) THEN FirstThrown(called)
            ELSE Ok([description |-> trim(take(stream, 30)),
                     currency |-> trim(take(skip(stream, 30), 3)),
                     amount |-> Quotient(Times(Number(take(skip(stream, 33), 15)), called[1].value), 1000),
                     category |-> Number(trim(take(skip(stream, 49), 3)))])
    IN  Call(returned, <<match(take(skip(stream, 48), 1), signLookup)>>)

\* parseCommunicationDetail, case '007' (index.ts 1621-1631): stream is the stream
\* after the type was taken, skip(stream, k) the stream after the k characters
\* that the fields before took
parseCommunicationDetail007(stream) ==
    Ok([number |-> Number(trim(take(stream, 7))),
        denomination |-> Quotient(Number(trim(take(skip(stream, 7), 6))), 1000),
        total |-> Quotient(Number(trim(take(skip(stream, 13), 15))), 1000)])

\* parseCommunicationDetail, case '008', '009' (index.ts 1634-1643): stream is the stream
\* after the type was taken, skip(stream, k) the stream after the k characters
\* that the fields before took
parseCommunicationDetail008(stream) ==
    Ok([name |-> trim(take(stream, 70)),
        identification_code |-> trim(take(skip(stream, 70), 35))])

\* parseCommunicationDetail, case 010: the lookup of the getter securities_code_type_description
detailLookup010_securities_code_type_description ==
    (<<"0","1">> :> "SVM")
    @@ (<<"0","2">> :> "ISIN (ISO)")
    @@ (<<"0","4">> :> "Telekurs (Switz.)")
    @@ (<<"0","5">> :> "Cedol (London)")
    @@ (<<"0","6">> :> "Cedel (Luxemburg)")
    @@ (<<"0","7">> :> "Euroclear")
    @@ (<<"0","8">> :> "Wertpapier (Germany)")
    @@ (<<"0","9">> :> "EOE (European Options Exchange)")
    @@ (<<"9","9">> :> "Internal code")
    @@ (wildcard :> "<Unknown>")

\* parseCommunicationDetail, case '010' (index.ts 1646-1741): stream is the stream
\* after the type was taken, skip(stream, k) the stream after the k characters
\* that the fields before took
parseCommunicationDetail010(stream) ==
    LET returned(called) ==
            IF AnyThrows(called) THEN FirstThrown(called)
            ELSE Ok([order_number |-> trim(take(stream, 13)),
                     bank_reference_number |-> trim(take(skip(stream, 13), 15)),
                     customer_reference_number |-> trim(take(skip(stream, 28), 13)),
                     securities_code_type |-> trim(take(skip(stream, 41), 2)),
                     securities_code_value |-> trim(take(skip(stream, 43), 15)),
                     method |-> trim(take(skip(stream, 58), 1)),
                     number |-> Quotient(Number(trim(take(skip(stream, 59), 12))), 10000),
                     currency |-> Number(trim(take(skip(stream, 71), 3))),
                     number_per_transaction_unit |-> Number(trim(take(skip(stream, 74), 4))),
                     quotation_currency |-> trim(take(skip(stream, 78), 3)),
                     stock_exchange_rate |-> Quotient(Number(trim(take(skip(stream, 81), 12))), 10000),
                     exchange_rate |-> Quotient(Number(trim(take(skip(stream, 93), 12))), 100000000),
                     name |-> trim(take(skip(stream, 105), 40)),
                     bordereau_number |-> trim(take(skip(stream, 145), 13)),
                     coupon_number |-> trim(take(skip(stream, 158), 8)),
                     coupon_payment_date |-> trim(take(skip(stream, 166), 8)),
                     country_stock_exchange_market |-> trim(take(skip(stream, 174), 30)),
                     purchase_sale_date |-> called[1].value,
                     nature |-> trim(take(skip(stream, 212), 24)),
                     nominal_value |-> Quotient(Number(trim(take(skip(stream, 236), 15))), 1000)])
    IN  Call(returned, <<parseDate(trim(take(skip(stream, 204), 8)))>>)

\* parseCommunicationDetail, case 011: the lookup of the getter securities_code_type_description
detailLookup011_securities_code_type_description ==
    (<<"0","1">> :> "SVM")
    @@ (<<"0","2">> :> "ISIN (ISO)")
    @@ (<<"0","4">> :> "Telekurs (Switz.)")
    @@ (<<"0","5">> :> "Cedol (London)")
    @@ (<<"0","6">> :> "Cedel (Luxemburg)")
    @@ (<<"0","7">> :> "Euroclear")
    @@ (<<"0","8">> :> "Wertpapier (Germany)")
    @@ (<<"0","9">> :> "EOE (European Options Exchange)")
    @@ (<<"9","9">> :> "Internal code")
    @@ (wildcard :> "<Unknown>")

\* parseCommunicationDetail, case 011: the lookup of type
detailLookup011_type ==
    (<<"1">> :> "dividend")
    @@ (<<"0">> :> "interest")

\* parseCommunicationDetail, case '011' (index.ts 1744-1828): stream is the stream
\* after the type was taken, skip(stream, k) the stream after the k characters
\* that the fields before took
parseCommunicationDetail011(stream) ==
    LET returned(called) ==
            IF AnyThrows(called) THEN FirstThrown(called)
            ELSE Ok([order_number |-> trim(take(stream, 13)),
                     bank_reference_number |-> trim(take(skip(stream, 13), 15)),
                     customer_reference_number |-> trim(take(skip(stream, 28), 13)),
                     securities_code_type |-> trim(take(skip(stream, 41), 2)),
                     securities_code_value |-> trim(take(skip(stream, 43), 15)),
                     number |-> Quotient(Number(trim(take(skip(stream, 58), 12))), 10000),
                     name |-> trim(take(skip(stream, 70), 40)),
                     currency |-> trim(take(skip(stream, 110), 3)),
                     amount |-> Quotient(Number(trim(take(skip(stream, 113), 14))), 1000000),
                     type |-> called[1].value,
                     foreign_tax_rate |-> Quotient(Number(trim(take(skip(stream, 128), 15))), 1000),
                     nature |-> trim(take(skip(stream, 143), 24)),
                     coupon_number |-> trim(take(skip(stream, 167), 6)),
                     date |-> called[2].value,
                     exchange_rate |-> Quotient(Number(trim(take(skip(stream, 179), 12))), 100000000),
                     currency_payment |-> trim(take(skip(stream, 191), 3)),
                     nominal_value |-> Quotient(Number(trim(take(skip(stream, 194), 15))), 1000)])
    IN  Call(returned, <<match(trim(take(skip(stream, 127), 1)), detailLookup011_type),
              parseDate(trim(take(skip(stream, 173), 6)))>>)

\* parseCommunicationDetail: the getters of each payload, by type: the property read, whether it
\* holds a number, and the lookup it is matched against
detailGetters ==
    (<<"0","1","0">> :> <<[getter |-> "securities_code_type_description", of |-> "securities_code_type", numeric |-> FALSE,
           lookup |-> detailLookup010_securities_code_type_description]>>)
    @@ (<<"0","1","1">> :> <<[getter |-> "securities_code_type_description", of |-> "securities_code_type", numeric |-> FALSE,
           lookup |-> detailLookup011_securities_code_type_description]>>)

\* parseCommunicationDetail(line, type) (index.ts 1545-1838)
parseCommunicationDetail(line, type) ==
    LET decoded(communication) ==
            LET stream == StringStream(communication)
                structuredType == take(stream, 3)
                rest == skip(stream, 3)
            IN  CASE type = "unstructured" -> Ok(communication)
                  [] type = "structured" ->
                       CASE structuredType = <<"0","0","1">> -> Payload(parseCommunicationDetail001(rest))
                         [] structuredType = <<"0","0","2">> -> Payload(parseCommunicationDetail002(rest))
                         [] structuredType = <<"0","0","4">> -> Payload(parseCommunicationDetail002(rest))
                         [] structuredType = <<"0","0","5">> -> Payload(parseCommunicationDetail002(rest))
                         [] structuredType = <<"0","0","6">> -> Payload(parseCommunicationDetail006(rest))
                         [] structuredType = <<"0","0","7">> -> Payload(parseCommunicationDetail007(rest))
                         [] structuredType = <<"0","0","8">> -> Payload(parseCommunicationDetail008(rest))
                         [] structuredType = <<"0","0","9">> -> Payload(parseCommunicationDetail008(rest))
                         [] structuredType = <<"0","1","0">> -> Payload(parseCommunicationDetail010(rest))
                         [] structuredType = <<"0","1","1">> -> Payload(parseCommunicationDetail011(rest))
                         [] OTHER -> Err("Unknown structured communication type")
                  [] OTHER -> Err("Unknown communication type")
    IN  Call(decoded, line)

\* parseCommunicationMovement, case 100 (index.ts 1855-1861): stream is the stream
\* after the type was taken, skip(stream, k) the stream after the k characters
\* that the fields before took
parseCommunicationMovement100(stream, structuredType) ==
    Ok([type |-> structuredType,
        type_description |->
            "Payment with a structured format communication applying the ISO standard 11649: Structured creditor reference to remittance information",
        value |-> trim(take(stream, 21))])

\* parseCommunicationMovement, case 101 (index.ts 1864-1870): stream is the stream
\* after the type was taken, skip(stream, k) the stream after the k characters
\* that the fields before took
parseCommunicationMovement101(stream, structuredType) ==
    Ok([type |-> structuredType,
        type_description |-> "Credit transfer or cash payment with structured format communication",
        value |-> trim(take(stream, 12))])

\* parseCommunicationMovement, case 102 (index.ts 1873-1879): stream is the stream
\* after the type was taken, skip(stream, k) the stream after the k characters
\* that the fields before took
parseCommunicationMovement102(stream, structuredType) ==
    Ok([type |-> structuredType,
        type_description |-> "Credit transfer or cash payment with reconstituted structured format communication",
        value |-> trim(take(stream, 12))])

\* parseCommunicationMovement, case 103 (index.ts 1882-1887): stream is the stream
\* after the type was taken, skip(stream, k) the stream after the k characters
\* that the fields before took
parseCommunicationMovement103(stream, structuredType) ==
    Ok([type |-> structuredType,
        type_description |-> "Number (e.g. of the cheque, of the card, etc.)",
        value |-> take(stream, 12)])

\* parseCommunicationMovement, case 105 (index.ts 1890-1915): stream is the stream
\* after the type was taken, skip(stream, k) the stream after the k characters
\* that the fields before took
parseCommunicationMovement105(stream, structuredType) ==
    Ok([type |-> structuredType,
        type_description |-> "Original amount of the transaction",
        gross_amount_currency_account |-> Quotient(Number(trim(take(stream, 15))), 1000),
        gross_amount_original_currency |-> Quotient(Number(trim(take(skip(stream, 15), 15))), 1000),
        rate |-> Quotient(Number(trim(take(skip(stream, 30), 12))), 100000000),
        currency |-> trim(take(skip(stream, 42), 3)),
        structured_format_communication |-> trim(take(skip(stream, 45), 12)),
        country_code_principal |-> trim(take(skip(stream, 57), 2)),
        equivalent_eur |-> Quotient(Number(trim(take(skip(stream, 59), 15))), 1000)])

\* parseCommunicationMovement, case 106 (index.ts 1918-1940): stream is the stream
\* after the type was taken, skip(stream, k) the stream after the k characters
\* that the fields before took
parseCommunicationMovement106(stream, structuredType) ==
    Ok([type |-> structuredType,
        type_description |-> "Method of calculation (VAT, withholding tax on income, commission, etc.)",
        equivalent_currency_account |-> Quotient(Number(trim(take(stream, 15))), 1000),
        amount |-> Quotient(Number(trim(take(skip(stream, 15), 15))), 1000),
        percent |-> Quotient(Number(trim(take(skip(stream, 30), 12))), 100000000),
        minimum |-> (trim(take(skip(stream, 42), 1)) = <<"1">>),
        equivalent_eur |-> Quotient(Number(trim(take(skip(stream, 43), 15))), 1000)])

\* parseCommunicationMovement, case 108 (index.ts 1943-1962): stream is the stream
\* after the type was taken, skip(stream, k) the stream after the k characters
\* that the fields before took
parseCommunicationMovement108(stream, structuredType) ==
    LET returned(called) ==
            IF AnyThrows(called) THEN FirstThrown(called)
            ELSE Ok([type |-> structuredType,
                     type_description |-> "Closing",
                     equivalent_currency_account |-> Quotient(Number(trim(take(stream, 15))), 1000),
                     interest_rates_calculation_basis |-> Number(trim(take(skip(stream, 15), 15))),
                     interest |-> Quotient(Number(trim(take(skip(stream, 30), 12))), 100000000),
                     period |-> [from |-> called[1].value,
                                 to |-> called[2].value]])
    IN  Call(returned, <<parseDate(trim(take(skip(stream, 42), 6))),
              parseDate(trim(take(skip(stream, 48), 6)))>>)

\* parseCommunicationMovement, case 111: the lookup of the getter card_scheme_description
movementLookup111_card_scheme_description ==
    (<<"1">> :> "Bancontact/Mister Cash")
    @@ (<<"2">> :> "Maestro")
    @@ (<<"3">> :> "Private")
    @@ (<<"5">> :> "TINA")
    @@ (<<"9">> :> "Other")
    @@ (wildcard :> "<Unknown>")

\* parseCommunicationMovement, case 111: the lookup of the getter transaction_type_description
movementLookup111_transaction_type_description ==
    (<<"0">> :> "Cumulative")
    @@ (<<"1">> :> "Withdrawal")
    @@ (<<"2">> :> "Cumulative on network")
    @@ (<<"5">> :> "POS others")
    @@ (<<"7">> :> "Distribution sector")
    @@ (<<"8">> :> "Teledata")
    @@ (<<"9">> :> "Fuel")
    @@ (wildcard :> "<Unknown>")

\* parseCommunicationMovement, case 111 (index.ts 1965-2049): stream is the stream
\* after the type was taken, skip(stream, k) the stream after the k characters
\* that the fields before took
parseCommunicationMovement111(stream, structuredType) ==
    LET returned(called) ==
            IF AnyThrows(called) THEN FirstThrown(called)
            ELSE Ok([type |-> structuredType,
                     type_description |-> "POS credit - Globalisation",
                     card_scheme |-> Number(trim(take(stream, 1))),
                     pos_number |-> trim(take(skip(stream, 1), 6)),
                     period_number |-> trim(take(skip(stream, 7), 3)),
                     first_transaction |-> [sequence_number |-> trim(take(skip(stream, 10), 6)),
                                            date |-> called[1].value],
                     last_transaction |-> [sequence_number |-> trim(take(skip(stream, 22), 6)),
                                           date |-> called[2].value],
                     transaction_type |-> Number(trim(take(skip(stream, 34), 1))),
                     identification_terminal |-> [name |-> collapseSpaces(trim(take(skip(stream, 35), 16))),
                                                  locality |-> collapseSpaces(trim(take(skip(stream, 51), 10)))]])
    IN  Call(returned, <<parseDate(trim(take(skip(stream, 16), 6))),
              parseDate(trim(take(skip(stream, 28), 6)))>>)

\* parseCommunicationMovement, case 113: the lookup of the getter card_scheme_description
movementLookup113_card_scheme_description ==
    (<<"1">> :> "Bancontact/Mister Cash")
    @@ (<<"2">> :> "Maestro")
    @@ (<<"3">> :> "Private")
    @@ (<<"5">> :> "TINA")
    @@ (wildcard :> "<Unknown>")

\* parseCommunicationMovement, case 113: the lookup of the getter transaction_type_description
movementLookup113_transaction_type_description ==
    (<<"1">> :> "Withdrawal")
    @@ (<<"2">> :> "Proton loading")
    @@ (<<"3">> :> "Reimbursement Proton balance")
    @@ (<<"4">> :> "Reversal of purchases")
    @@ (<<"5">> :> "POS others")
    @@ (<<"7">> :> "Distribution sector")
    @@ (<<"8">> :> "Teledata")
    @@ (<<"9">> :> "Fuel")
    @@ (wildcard :> "<Unknown>")

\* parseCommunicationMovement, case 113: the lookup of the getter product_code_description
movementLookup113_product_code_description ==
    (<<"1">> :> "Premium with lead substitute")
    @@ (<<"2">> :> "Europremium")
    @@ (<<"3">> :> "Diesel")
    @@ (<<"4">> :> "LPG")
    @@ (<<"6">> :> "Premium plus 98 oct")
    @@ (<<"7">> :> "Regular unleaded")
    @@ (<<"8">> :> "Domestic fuel oil")
    @@ (<<"9">> :> "Lubricants")
    @@ (<<"1","0">> :> "Petrol")
    @@ (<<"1","1">> :> "Premium 99+")
    @@ (<<"1","2">> :> "Avgas")
    @@ (<<"1","6">> :> "Other types")
    @@ (wildcard :> "<Unknown>")

\* parseCommunicationMovement, case 113 (index.ts 2052-2176): stream is the stream
\* after the type was taken, skip(stream, k) the stream after the k characters
\* that the fields before took
parseCommunicationMovement113(stream, structuredType) ==
    LET returned(called) ==
            IF AnyThrows(called) THEN FirstThrown(called)
            ELSE Ok([type |-> structuredType,
                     type_description |-> "ATM/POS debit",
                     masked_pan |-> trim(take(stream, 16)),
                     card_scheme |-> Number(trim(take(skip(stream, 16), 1))),
                     terminal_number |-> Number(trim(take(skip(stream, 17), 6))),
                     sequence_number |-> Number(trim(take(skip(stream, 23), 6))),
                     date |-> called[1].value,
                     transaction_type |-> Number(trim(take(skip(stream, 39), 1))),
                     identification_terminal |-> [name |-> trim(take(skip(stream, 40), 16)),
                                                  city |-> trim(take(skip(stream, 56), 10))],
                     original_amount |-> Quotient(Number(trim(take(skip(stream, 66), 15))), 1000),
                     rate |-> Quotient(Number(trim(take(skip(stream, 81), 12))), 100000000),
                     currency |-> trim(take(skip(stream, 93), 3)),
                     volume |-> Quotient(Number(trim(take(skip(stream, 96), 5))), 100),
                     product_code |-> Number(trim(take(skip(stream, 101), 2))),
                     unit_price |-> Quotient(Number(trim(take(skip(stream, 103), 5))), 100)])
    IN  Call(returned, <<parseDate(trim(take(skip(stream, 29), 10)))>>)

\* parseCommunicationMovement, case 114: the lookup of the getter card_scheme_description
movementLookup114_card_scheme_description ==
    (<<"1">> :> "Bancontact/Mister Cash")
    @@ (<<"2">> :> "Maestro")
    @@ (<<"3">> :> "Private")
    @@ (<<"5">> :> "TINA")
    @@ (<<"9">> :> "Other")
    @@ (wildcard :> "<Unknown>")

\* parseCommunicationMovement, case 114: the lookup of the getter transaction_type_description
movementLookup114_transaction_type_description ==
    (<<"1">> :> "Withdrawal")
    @@ (<<"5">> :> "POS others")
    @@ (<<"7">> :> "Distribution sector")
    @@ (<<"8">> :> "Teledata")
    @@ (<<"9">> :> "Fuel")
    @@ (wildcard :> "<Unknown>")

\* parseCommunicationMovement, case 114 (index.ts 2179-2250): stream is the stream
\* after the type was taken, skip(stream, k) the stream after the k characters
\* that the fields before took
parseCommunicationMovement114(stream, structuredType) ==
    LET returned(called) ==
            IF AnyThrows(called) THEN FirstThrown(called)
            ELSE Ok([type |-> structuredType,
                     type_description |-> "POS credit - individual transaction",
                     card_scheme |-> Number(trim(take(stream, 1))),
                     pos_number |-> trim(take(skip(stream, 1), 6)),
                     period_number |-> Number(trim(take(skip(stream, 7), 3))),
                     sequence_number |-> Number(trim(take(skip(stream, 10), 6))),
                     date |-> called[1].value,
                     transaction_type |-> Number(trim(take(skip(stream, 26), 1))),
                     identification_terminal |-> [name |-> trim(take(skip(stream, 27), 16)),
                                                  city |-> trim(take(skip(stream, 43), 10))],
                     reference |-> trim(take(skip(stream, 53), 16))])
    IN  Call(returned, <<parseDate(trim(take(skip(stream, 16), 10)))>>)

\* parseCommunicationMovement, case 115: the lookup of the getter card_scheme_description
movementLookup115_card_scheme_description ==
    (<<"3">> :> "Private")
    @@ (<<"9">> :> "Other")
    @@ (wildcard :> "<Unknown>")

\* parseCommunicationMovement, case 115 (index.ts 2253-2313): stream is the stream
\* after the type was taken, skip(stream, k) the stream after the k characters
\* that the fields before took
parseCommunicationMovement115(stream, structuredType) ==
    LET returned(called) ==
            IF AnyThrows(called) THEN FirstThrown(called)
            ELSE Ok([type |-> structuredType,
                     type_description |-> "Terminal cash deposit",
                     masked_pan |-> trim(take(stream, 16)),
                     card_scheme |-> Number(trim(take(skip(stream, 16), 1))),
                     terminal_number |-> Number(trim(take(skip(stream, 17), 6))),
                     sequence_number |-> Number(trim(take(skip(stream, 23), 6))),
                     payment_day |-> called[1].value,
                     sequence_number_validation |-> Number(trim(take(skip(stream, 39), 6))),
                     original_amount_customer |-> Quotient(Number(trim(take(skip(stream, 45), 15))), 1000),
                     conformity_code |-> trim(take(skip(stream, 60), 1)),
                     identification_terminal |-> [name |-> collapseSpaces(trim(take(skip(stream, 61), 16))),
                                                  locality |-> collapseSpaces(trim(take(skip(stream, 77), 10)))],
                     message |-> trim(take(skip(stream, 87), 12))])
    IN  Call(returned, <<parseDate(trim(take(skip(stream, 29), 10)))>>)

\* parseCommunicationMovement, case 121 (index.ts 2316-2344): stream is the stream
\* after the type was taken, skip(stream, k) the stream after the k characters
\* that the fields before took
parseCommunicationMovement121(stream, structuredType) ==
    LET returned(called) ==
            IF AnyThrows(called) THEN FirstThrown(called)
            ELSE Ok([type |-> structuredType,
                     type_description |-> "Commercial bills",
                     amount |-> Quotient(Number(trim(take(stream, 15))), 1000),
                     maturity_date |-> called[1].value,
                     conventional_maturity_date |-> called[2].value,
                     issue_date |-> called[3].value,
                     company_number |-> trim(take(skip(stream, 33), 11)),
                     currency |-> trim(take(skip(stream, 44), 3)),
                     number |-> trim(take(skip(stream, 50), 13)),
                     exchange_rate |-> Quotient(Number(trim(take(skip(stream, 63), 12))), 100000000)])
    IN  Call(returned, <<parseDate(trim(take(skip(stream, 15), 6))),
              parseDate(trim(take(skip(stream, 21), 6))),
              parseDate(trim(take(skip(stream, 27), 6)))>>)

\* parseCommunicationMovement, case 122 (index.ts 2347-2372): stream is the stream
\* after the type was taken, skip(stream, k) the stream after the k characters
\* that the fields before took
parseCommunicationMovement122(stream, structuredType) ==
    LET returned(called) ==
            IF AnyThrows(called) THEN FirstThrown(called)
            ELSE Ok([type |-> structuredType,
                     type_description |-> "Bills - calculation of interest",
                     number_of_days |-> Number(trim(take(stream, 4))),
                     interest_rate |-> Quotient(Number(trim(take(skip(stream, 4), 12))), 100000000),
                     basic_amount |-> Quotient(Number(trim(take(skip(stream, 16), 15))), 1000),
                     minimum_rate |-> (trim(take(skip(stream, 31), 1)) = <<"1">>),
                     number |-> trim(take(skip(stream, 32), 13)),
                     maturity_date |-> called[1].value])
    IN  Call(returned, <<parseDate(trim(take(skip(stream, 45), 6)))>>)

\* parseCommunicationMovement, case 123 (index.ts 2375-2403): stream is the stream
\* after the type was taken, skip(stream, k) the stream after the k characters
\* that the fields before took
parseCommunicationMovement123(stream, structuredType) ==
    LET returned(called) ==
            IF AnyThrows(called) THEN FirstThrown(called)
            ELSE Ok([type |-> structuredType,
                     type_description |-> "Fees and commissions",
                     starting_date |-> called[1].value,
                     maturity_date |-> called[2].value,
                     basic_amount |-> Quotient(Number(trim(take(skip(stream, 12), 15))), 1000),
                     percentage |-> Quotient(Number(trim(take(skip(stream, 27), 12))), 100000000),
                     term_in_days |-> Number(trim(take(skip(stream, 39), 4))),
                     minimum_rate |-> (trim(take(skip(stream, 43), 1)) = <<"1">>),
                     guarantee_number |-> trim(take(skip(stream, 44), 13))])
    IN  Call(returned, <<parseDate(trim(take(stream, 6))),
              parseDate(trim(take(skip(stream, 6), 6)))>>)

\* parseCommunicationMovement, case 124: the lookup of the getter issuing_institution_description
movementLookup124_issuing_institution_description ==
    (<<"1">> :> "Mastercard")
    @@ (<<"2">> :> "Visa")
    @@ (<<"3">> :> "American Express")
    @@ (<<"4">> :> "Diners Club")
    @@ (<<"9">> :> "Other")
    @@ (wildcard :> "<Unknown>")

\* parseCommunicationMovement, case 124 (index.ts 2406-2444): stream is the stream
\* after the type was taken, skip(stream, k) the stream after the k characters
\* that the fields before took
parseCommunicationMovement124(stream, structuredType) ==
    LET returned(called) ==
            IF AnyThrows(called) THEN FirstThrown(called)
            ELSE Ok([type |-> structuredType,
                     type_description |-> "Number of the credit card",
                     masked_pan |-> trim(take(stream, 20)),
                     issuing_institution |-> Number(trim(take(skip(stream, 20), 1))),
                     invoice_number |-> trim(take(skip(stream, 21), 12)),
                     identification_number |-> trim(take(skip(stream, 33), 15)),
                     date |-> called[1].value])
    IN  Call(returned, <<parseDate(trim(take(skip(stream, 48), 6)))>>)

\* parseCommunicationMovement, case 125 (index.ts 2447-2481): stream is the stream
\* after the type was taken, skip(stream, k) the stream after the k characters
\* that the fields before took
parseCommunicationMovement125(stream, structuredType) ==
    LET returned(called) ==
            IF AnyThrows(called) THEN FirstThrown(called)
            ELSE Ok([type |-> structuredType,
                     type_description |-> "Credit",
                     account_number |-> trim(take(stream, 12)),
                     extension_zone_account_number |-> trim(take(skip(stream, 12), 15)),
                     old_balance |-> Quotient(Number(trim(take(skip(stream, 27), 15))), 1000),
                     new_balance |-> Quotient(Number(trim(take(skip(stream, 42), 15))), 1000),
                     amount |-> Quotient(Number(trim(take(skip(stream, 57), 15))), 1000),
                     currency |-> trim(take(skip(stream, 72), 3)),
                     start_date |-> called[1].value,
                     end_date |-> called[2].value,
                     nominal_interest_rate |-> Quotient(Number(trim(take(skip(stream, 87), 12))), 100000000),
                     reference |-> trim(take(skip(stream, 99), 13))])
    IN  Call(returned, <<parseDate(trim(take(skip(stream, 75), 6))),
              parseDate(trim(take(skip(stream, 81), 6)))>>)

\* parseCommunicationMovement, case 126 (index.ts 2484-2515): stream is the stream
\* after the type was taken, skip(stream, k) the stream after the k characters
\* that the fields before took
parseCommunicationMovement126(stream, structuredType) ==
    LET returned(called) ==
            IF AnyThrows(called) THEN FirstThrown(called)
            ELSE Ok([type |-> structuredType,
                     type_description |-> "Term investments",
                     deposit_number |-> trim(take(stream, 15)),
                     deposit_amount |-> Quotient(Number(trim(take(skip(stream, 15), 15))), 1000),
                     equivalent_currency_account |-> Quotient(Number(trim(take(skip(stream, 30), 15))), 1000),
                     start_date |-> called[1].value,
                     end_date |-> called[2].value,
                     interest_rate |-> Quotient(Number(trim(take(skip(stream, 57), 12))), 100000000),
                     amount_of_interest |-> trim(take(skip(stream, 69), 15)),
                     currency |-> trim(take(skip(stream, 84), 3)),
                     rate |-> Quotient(Number(trim(take(skip(stream, 87), 12))), 100000000)])
    IN  Call(returned, <<parseDate(trim(take(skip(stream, 45), 6))),
              parseDate(trim(take(skip(stream, 51), 6)))>>)

\* parseCommunicationMovement, case 127: the lookup of the getter type_direct_debit_description
movementLookup127_type_direct_debit_description ==
    (<<"0">> :> "Unspecified")
    @@ (<<"1">> :> "Recurrent")
    @@ (<<"2">> :> "One-off")
    @@ (<<"3">> :> "1st (Recurrent)")
    @@ (<<"4">> :> "Last (Recurrent)")
    @@ (wildcard :> "<Unknown>")

\* parseCommunicationMovement, case 127: the lookup of the getter direct_debit_scheme_description
movementLookup127_direct_debit_scheme_description ==
    (<<"0">> :> "Unspecified")
    @@ (<<"1">> :> "SEPA core")
    @@ (<<"2">> :> "SEPA B2B")
    @@ (wildcard :> "<Unknown>")

\* parseCommunicationMovement, case 127: the lookup of the getter paid_or_reason_for_refused_payment_description
movementLookup127_paid_or_reason_for_refused_payment_description ==
    (<<"0">> :> "Paid")
    @@ (<<"1">> :> "Technical problem")
    @@ (<<"2">> :> "Reason not specified")
    @@ (<<"3">> :> "Debtor disagrees")
    @@ (<<"4">> :> "Debtor's account problem")
    @@ (wildcard :> "<Unknown>")

\* parseCommunicationMovement, case 127: the lookup of the getter type_of_r_transaction_description
movementLookup127_type_of_r_transaction_description ==
    (<<"0">> :> "Paid")
    @@ (<<"1">> :> "Reject")
    @@ (<<"2">> :> "Return")
    @@ (<<"3">> :> "Refund")
    @@ (<<"4">> :> "Reversal")
    @@ (<<"5">> :> "Cancellation")
    @@ (wildcard :> "<Unknown>")

\* parseCommunicationMovement, case 127 (index.ts 2518-2615): stream is the stream
\* after the type was taken, skip(stream, k) the stream after the k characters
\* that the fields before took
parseCommunicationMovement127(stream, structuredType) ==
    LET returned(called) ==
            IF AnyThrows(called) THEN FirstThrown(called)
            ELSE Ok([type |-> structuredType,
                     type_description |-> "European direct debit (SEPA)",
                     settlement_date |-> called[1].value,
                     type_direct_debit |-> Number(trim(take(skip(stream, 6), 1))),
                     direct_debit_scheme |-> Number(trim(take(skip(stream, 7), 1))),
                     paid_or_reason_for_refused_payment |-> Number(trim(take(skip(stream, 8), 1))),
                     creditor_identification_code |-> trim(take(skip(stream, 9), 35)),
                     mandate_reference |-> trim(take(skip(stream, 44), 35)),
                     communication |-> trim(take(skip(stream, 79), 62)),
                     type_of_r_transaction |-> Number(trim(take(skip(stream, 141), 1))),
                     reason |-> trim(take(skip(stream, 142), 4))])
    IN  Call(returned, <<parseDate(trim(take(stream, 6)))>>)

\* parseCommunicationMovement: the getters of each payload, by type: the property read, whether it
\* holds a number, and the lookup it is matched against
movementGetters ==
    (111 :> <<[getter |-> "card_scheme_description", of |-> "card_scheme", numeric |-> TRUE,
           lookup |-> movementLookup111_card_scheme_description],
          [getter |-> "transaction_type_description", of |-> "transaction_type", numeric |-> TRUE,
           lookup |-> movementLookup111_transaction_type_description]>>)
    @@ (113 :> <<[getter |-> "card_scheme_description", of |-> "card_scheme", numeric |-> TRUE,
           lookup |-> movementLookup113_card_scheme_description],
          [getter |-> "transaction_type_description", of |-> "transaction_type", numeric |-> TRUE,
           lookup |-> movementLookup113_transaction_type_description],
          [getter |-> "product_code_description", of |-> "product_code", numeric |-> TRUE,
           lookup |-> movementLookup113_product_code_description]>>)
    @@ (114 :> <<[getter |-> "card_scheme_description", of |-> "card_scheme", numeric |-> TRUE,
           lookup |-> movementLookup114_card_scheme_description],
          [getter |-> "transaction_type_description", of |-> "transaction_type", numeric |-> TRUE,
           lookup |-> movementLookup114_transaction_type_description]>>)
    @@ (115 :> <<[getter |-> "card_scheme_description", of |-> "card_scheme", numeric |-> TRUE,
           lookup |-> movementLookup115_card_scheme_description]>>)
    @@ (124 :> <<[getter |-> "issuing_institution_description", of |-> "issuing_institution", numeric |-> TRUE,
           lookup |-> movementLookup124_issuing_institution_description]>>)
    @@ (127 :> <<[getter |-> "type_direct_debit_description", of |-> "type_direct_debit", numeric |-> TRUE,
           lookup |-> movementLookup127_type_direct_debit_description],
          [getter |-> "direct_debit_scheme_description", of |-> "direct_debit_scheme", numeric |-> TRUE,
           lookup |-> movementLookup127_direct_debit_scheme_description],
          [getter |-> "paid_or_reason_for_refused_payment_description", of |-> "paid_or_reason_for_refused_payment", numeric |-> TRUE,
           lookup |-> movementLookup127_paid_or_reason_for_refused_payment_description],
          [getter |-> "type_of_r_transaction_description", of |-> "type_of_r_transaction", numeric |-> TRUE,
           lookup |-> movementLookup127_type_of_r_transaction_description]>>)

\* parseCommunicationMovement(line, type) (index.ts 1840-2624)
parseCommunicationMovement(line, type) ==
    LET decoded(communication) ==
            LET stream == StringStream(communication)
                structuredType == Number(take(stream, 3))
                rest == skip(stream, 3)
            IN  CASE type = "unstructured" -> Ok(communication)
                  [] type = "structured" ->
                       CASE structuredType = 100 -> Payload(parseCommunicationMovement100(rest, structuredType))
                         [] structuredType = 101 -> Payload(parseCommunicationMovement101(rest, structuredType))
                         [] structuredType = 102 -> Payload(parseCommunicationMovement102(rest, structuredType))
                         [] structuredType = 103 -> Payload(parseCommunicationMovement103(rest, structuredType))
                         [] structuredType = 105 -> Payload(parseCommunicationMovement105(rest, structuredType))
                         [] structuredType = 106 -> Payload(parseCommunicationMovement106(rest, structuredType))
                         [] structuredType = 108 -> Payload(parseCommunicationMovement108(rest, structuredType))
                         [] structuredType = 111 -> Payload(parseCommunicationMovement111(rest, structuredType))
                         [] structuredType = 113 -> Payload(parseCommunicationMovement113(rest, structuredType))
                         [] structuredType = 114 -> Payload(parseCommunicationMovement114(rest, structuredType))
                         [] structuredType = 115 -> Payload(parseCommunicationMovement115(rest, structuredType))
                         [] structuredType = 121 -> Payload(parseCommunicationMovement121(rest, structuredType))
                         [] structuredType = 122 -> Payload(parseCommunicationMovement122(rest, structuredType))
                         [] structuredType = 123 -> Payload(parseCommunicationMovement123(rest, structuredType))
                         [] structuredType = 124 -> Payload(parseCommunicationMovement124(rest, structuredType))
                         [] structuredType = 125 -> Payload(parseCommunicationMovement125(rest, structuredType))
                         [] structuredType = 126 -> Payload(parseCommunicationMovement126(rest, structuredType))
                         [] structuredType = 127 -> Payload(parseCommunicationMovement127(rest, structuredType))
                         [] OTHER -> Err("Unknown structured movement communication type")
                  [] OTHER -> Err("Unknown movement communication type")
    IN  Call(decoded, line)


\* ------------------------------------------------------------------------
\* parse(coda)
\* ------------------------------------------------------------------------

\* obj.name, undefined when the object has no such property
Undef == <<"#undefined">>

Prop(obj, name) == IF name \in DOMAIN obj THEN obj[name] ELSE Undef

\* delete obj[name]
Delete(obj, names) == [k \in (DOMAIN obj) \ names |-> obj[k]]

\* list.indexOf(x), counted from 0; -1 when x is not in the list
indexOf(list, x) ==
    IF \E k \in 1..Len(list) : list[k] = x
    THEN MinOf({k \in 1..Len(list) : list[k] = x}) - 1
    ELSE -1

\* list.splice(start, 1): the list that is left; a negative start counts from
\* the end of the list
splice1(list, start) ==
    LET from == IF start < 0
                THEN (IF Len(list) + start < 0 THEN 0 ELSE Len(list) + start)
                ELSE (IF start > Len(list) THEN Len(list) ELSE start)
    IN  SubSeq(list, 1, from) \o SubSeq(list, from + 2, Len(list))

\* the list, were only the first dropped record removed
removeDroppedFirst(list, dropped) ==
    IF dropped = <<>> THEN list ELSE splice1(list, indexOf(list, dropped[1]))

\* for (let x of drop.splice(0)) { list.splice(list.indexOf(x), 1) }
removeDropped(list, dropped) ==
    LET after[k \in 0..Len(dropped)] ==
            IF k = 0 THEN list
            ELSE LET left(before) == splice1(before, indexOf(before, dropped[k]))
                 IN  Call(left, after[k - 1])
    IN  after[Len(dropped)]

\* the default branch, were the line skipped
unknownRecordTypeSkipped(line) == [outcome |-> Ok(Undef)]

\* the default branch of the switch (line[0]): throw new Error('Unknown record
\* type')
unknownRecordType(line) == [outcome |-> Err("Unknown record type")]

\* the line of type 2 or 3 of another article, were it taken for a record of
\* article 2 of the movements
otherArticleIsContinuation(line) == [push |-> "movements", outcome |-> parseMovement22(line)]

\* a line of type 2 or 3 whose article is not 1, 2 or 3: the chain of
\* `if (line.startsWith(...))` has no else, the line is passed over
otherArticle(line) == [outcome |-> Ok(Undef)]

\* the body of the switch (line[0]) of the first loop: the property of result
\* that the line sets (into) or the list that it extends (push), with the
\* outcome of the decoder that is called; a line of type 2 or 3 with another
\* article code than 1, 2, 3 does nothing
decodeRecord(line, accountStructureData) ==
    LET type == At(line, 0)
    IN  CASE type = "0" -> [into |-> "header", outcome |-> parseHeader(StringStream(line))]
          [] type = "1" -> [into |-> "old", outcome |-> parseOldBalance(line)]
          [] type = "2" ->
               IF startsWith(line, <<"2", "1">>)
               THEN [push |-> "movements", outcome |-> parseMovement21(line)]
               ELSE IF startsWith(line, <<"2", "2">>)
               THEN [push |-> "movements", outcome |-> parseMovement22(line)]
               ELSE IF startsWith(line, <<"2", "3">>)
               THEN [push |-> "movements", outcome |-> parseMovement23(line)]
               ELSE otherArticle(line)
          [] type = "3" ->
               IF startsWith(line, <<"3", "1">>)
               THEN [push |-> "information", outcome |-> parseAdditionalInformation31(line)]
               ELSE IF startsWith(line, <<"3", "2">>)
               THEN [push |-> "information", outcome |-> parseAdditionalInformation32(line)]
               ELSE IF startsWith(line, <<"3", "3">>)
               THEN [push |-> "information", outcome |-> parseAdditionalInformation33(line)]
               ELSE otherArticle(line)
          [] type = "8" ->
               [into |-> "new", outcome |-> parseNewBalance(line, accountStructureData)]
          [] type = "4" ->
               [push |-> "free_communications", outcome |-> parseFreeCommunication(line)]
          [] type = "9" -> [into |-> "trailer", outcome |-> parseTrailer(line)]
          [] OTHER -> unknownRecordType(line)

\* state.accountStructureData, were it set by the first line of type 1 only
carriedStructureOnce(line, accountStructureData) ==
    IF At(line, 0) = "1" /\ accountStructureData = Null
    THEN Num(NumberOfChar(At(line, 1))) ELSE accountStructureData

\* state.accountStructureData after the line: a line of type 1 sets it, before
\* its decoder is called
carriedStructure(line, accountStructureData) ==
    IF At(line, 0) = "1" THEN Num(NumberOfChar(At(line, 1))) ELSE accountStructureData

\* result after the line was decoded into `value`; a pushed object is allocated
\* in the heap under `ref` and the list holds the reference
assigned(res, decoded, ref) ==
    IF "into" \in DOMAIN decoded
    THEN CASE decoded.into = "header" -> [res EXCEPT !.header = decoded.outcome.value]
           [] decoded.into = "old" -> [res EXCEPT !.balance.old = decoded.outcome.value]
           [] decoded.into = "new" -> [res EXCEPT !.balance.new = decoded.outcome.value]
           [] decoded.into = "trailer" -> [res EXCEPT !.trailer = decoded.outcome.value]
    ELSE IF "push" \in DOMAIN decoded
    THEN [res EXCEPT ![decoded.push] = Append(@, ref)]
    ELSE res

\* the state in which parse is left by an Error
Throw(message) ==
    /\ pc' = "thrown"
    /\ thrown' = message

\* one iteration of `for (let i = 0; i < lines.length; i++)` (index.ts 34-104)
DecodeLine ==
    /\ pc = "lines"
    /\ i < Len(lines)
    /\ state' = [state EXCEPT !.accountStructureData = carriedStructure(lines[i + 1], @)]
    /\ \E decoded \in {decodeRecord(lines[i + 1],
                                    carriedStructure(lines[i + 1],
                                                     state.accountStructureData))} :
          IF IsErr(decoded.outcome)
          THEN /\ Throw(decoded.outcome.threw)
               /\ UNCHANGED <<i, result, heap>>
          ELSE /\ result' = assigned(result, decoded, i + 1)
               /\ heap' = IF "push" \in DOMAIN decoded
                          THEN ((i + 1) :> decoded.outcome.value) @@ heap
                          ELSE heap
               /\ IF i + 1 < Len(lines)
                  THEN /\ i' = i + 1
                       /\ pc' = pc
                  ELSE /\ i' = 0
                       /\ pc' = "mergeMovements"
               /\ UNCHANGED thrown
    /\ UNCHANGED <<calls, coda, fullYear, lines, drop, handed, merged>>

\* the flag that continues a chain: next_code for movements and information,
\* link_code for free communications, whose accumulated field is text
chainFlag(field) == IF field = "text" THEN "link_code" ELSE "next_code"

\* the concatenation, were the text of the next record put first
accumulateReversed(rootText, nextText) == nextText \o rootText

\* the concatenation, were the buffer normalized as it is accumulated
accumulateNormalized(rootText, nextText) == normalize(rootText \o nextText)

\* root.<field> + next.<field>: the text of the root, then that of the next
\* record
accumulate(rootText, nextText) == rootText \o nextText

\* the inner `while (record.<flag> === '1')` of a merge pass, for the root at
\* index j of the list: Object.assign(root, next, {<field>: root.<field> +
\* next.<field>}) for each next record that is there, whatever its article;
\* the loop is left by break when there is none. Returns the heap, the index,
\* the records pushed to drop, and whether the loop was left by break.
RECURSIVE mergeChain(_, _, _, _, _, _)
mergeChain(heapBefore, list, root, j, dropped, field) ==
    LET looped(h) ==
            IF h[root][chainFlag(field)] = "1"
            THEN IF j + 1 < Len(list)
                 THEN LET next == list[j + 2]
                          assignedRoot ==
                              (field :> accumulate(h[root][field], h[next][field]))
                                  @@ h[next] @@ h[root]
                      IN  mergeChain([h EXCEPT ![root] = assignedRoot], list, root,
                                     j + 1, Append(dropped, next), field)
                 ELSE [heap |-> h, i |-> j + 1, drop |-> dropped, broke |-> TRUE]
            ELSE [heap |-> h, i |-> j, drop |-> dropped, broke |-> FALSE]
    IN  Call(looped, heapBefore)

\* the record that is not a root, were the record after it passed over
noChainPassesNext(h, j) == [heap |-> h, i |-> j + 1, drop |-> <<>>, broke |-> FALSE]

\* the record that is not a root, were the index of the outer loop taken back
\* by the step that the loop then adds
noChainStays(h, j) == [heap |-> h, i |-> j - 1, drop |-> <<>>, broke |-> FALSE]

\* a record that is not the root of a chain: the inner loop does not run
noChain(h, j) == [heap |-> h, i |-> j, drop |-> <<>>, broke |-> FALSE]

\* the entry of the history for a chain that a merge pass closed
chainEntry(pass, root, chain, communication, type, outcome) ==
    [pass |-> pass, root |-> root, consumed |-> chain.drop, broke |-> chain.broke,
     communication |-> communication, type |-> type, outcome |-> outcome]

\* the body of the outer loop of a merge pass for the record at index j: the
\* chain is merged when the record is a root, and then the accumulated
\* communication is handed to the decoder of the pass:
\* parseCommunicationMovement for the movements, parseCommunicationDetail for
\* the information records
mergedRecord(pass, h, list, j) ==
    LET root == list[j + 1]
        decodedChain(chain) ==
            LET accumulated == chain.heap[root].communication
                type == chain.heap[root].communication_type
                entry(outcome) ==
                    [chain |-> chain,
                     outcome |-> outcome,
                     handed |-> <<chainEntry(pass, root, chain, accumulated, type,
                                             outcome)>>]
            IN  Call(entry, IF pass = "movements"
                            THEN parseCommunicationMovement(accumulated, type)
                            ELSE parseCommunicationDetail(accumulated, type))
    IN  IF h[root].article_code = "1"
        THEN Call(decodedChain, mergeChain(h, list, root, j, <<>>, "communication"))
        ELSE [chain |-> noChain(h, j),
              outcome |-> Ok(h[root].communication),
              handed |-> <<>>]

\* the communication, were the string not normalized
normalizedNever(communication) == communication

\* if (typeof record.communication === 'string') it is normalized
normalized(communication) ==
    IF IsString(communication) THEN normalize(communication) ELSE communication

\* one iteration of the outer loop of "Merge movement records" (index.ts 109-144)
MergeMovement ==
    /\ pc = "mergeMovements"
    /\ i < Len(result.movements)
    /\ \E step \in {mergedRecord("movements", heap, result.movements, i)} :
          /\ handed' = handed \o step.handed
          /\ IF IsErr(step.outcome)
             THEN /\ Throw(step.outcome.threw)
                  /\ UNCHANGED <<i, heap, drop>>
             ELSE /\ heap' = [step.chain.heap
                                 EXCEPT ![result.movements[i + 1]].communication =
                                            normalized(step.outcome.value)]
                  /\ drop' = drop \o step.chain.drop
                  /\ i' = step.chain.i + 1
                  /\ UNCHANGED <<pc, thrown>>
    /\ UNCHANGED <<calls, coda, fullYear, lines, state, result, merged>>

\* the end of the pass: the merged movements are removed (index.ts 147-149)
DropMovements ==
    /\ pc = "mergeMovements"
    /\ i >= Len(result.movements)
    /\ result' = [result EXCEPT !.movements = removeDropped(@, drop)]
    /\ drop' = <<>>
    /\ i' = 0
    /\ pc' = "mergeInformation"
    /\ UNCHANGED <<calls, coda, fullYear, lines, state, heap, handed, merged, thrown>>

\* one iteration of the outer loop of "Merge information records"
\* (index.ts 155-190)
MergeInformation ==
    /\ pc = "mergeInformation"
    /\ i < Len(result.information)
    /\ \E step \in {mergedRecord("information", heap, result.information, i)} :
          /\ handed' = handed \o step.handed
          /\ IF IsErr(step.outcome)
             THEN /\ Throw(step.outcome.threw)
                  /\ UNCHANGED <<i, heap, drop>>
             ELSE /\ heap' = [step.chain.heap
                                 EXCEPT ![result.information[i + 1]].communication =
                                            normalized(step.outcome.value)]
                  /\ drop' = drop \o step.chain.drop
                  /\ i' = step.chain.i + 1
                  /\ UNCHANGED <<pc, thrown>>
    /\ UNCHANGED <<calls, coda, fullYear, lines, state, result, merged>>

\* the end of the pass: the merged information records are removed
\* (index.ts 193-195)
DropInformation ==
    /\ pc = "mergeInformation"
    /\ i >= Len(result.information)
    /\ result' = [result EXCEPT !.information = removeDropped(@, drop)]
    /\ drop' = <<>>
    /\ i' = 0
    /\ pc' = "mergeFreeCommunications"
    /\ UNCHANGED <<calls, coda, fullYear, lines, state, heap, handed, merged, thrown>>

\* one iteration of the outer loop of "Merge free communication records"
\* (index.ts 201-224): every record is the root of a chain, and the text is
\* normalized, not decoded
MergeFreeCommunication ==
    /\ pc = "mergeFreeCommunications"
    /\ i < Len(result.free_communications)
    /\ \E communication \in {result.free_communications[i + 1]} :
       \E chain \in {mergeChain(heap, result.free_communications, communication, i,
                                <<>>, "text")} :
          /\ handed' = Append(handed,
                              chainEntry("free_communications", communication, chain,
                                         chain.heap[communication].text, "unstructured",
                                         Ok(normalize(chain.heap[communication].text))))
          /\ heap' = [chain.heap EXCEPT ![communication].text = normalize(@)]
          /\ drop' = drop \o chain.drop
          /\ i' = chain.i + 1
    /\ UNCHANGED <<calls, coda, fullYear, pc, lines, state, result, merged, thrown>>

\* the end of the pass: the merged free communications are removed
\* (index.ts 227-229)
DropFreeCommunications ==
    /\ pc = "mergeFreeCommunications"
    /\ i >= Len(result.free_communications)
    /\ result' = [result EXCEPT !.free_communications = removeDropped(@, drop)]
    /\ drop' = <<>>
    /\ i' = 0
    /\ pc' = "cleanup"
    /\ UNCHANGED <<calls, coda, fullYear, lines, state, heap, handed, merged, thrown>>

\* the elements of a list, as a set
Elements(list) == {list[k] : k \in 1..Len(list)}

\* the heap, were only the next codes deleted
cleanedNextCodes(h, res) ==
    [ref \in DOMAIN h |->
        IF ref \in Elements(res.movements) \cup Elements(res.information)
        THEN Delete(h[ref], {"next_code"})
        ELSE h[ref]]

\* "Cleanup unnecesary fields": the heap after the three loops of deletes
cleaned(h, res) ==
    [ref \in DOMAIN h |->
        IF ref \in Elements(res.movements) \cup Elements(res.information)
        THEN Delete(h[ref], {"next_code", "link_code"})
        ELSE IF ref \in Elements(res.free_communications)
        THEN Delete(h[ref], {"link_code"})
        ELSE h[ref]]

\* "Cleanup unnecesary fields" (index.ts 233-259)
Cleanup ==
    /\ pc = "cleanup"
    /\ heap' = cleaned(heap, result)
    /\ merged' = [movements |-> result.movements,
                  information |-> result.information,
                  free_communications |-> result.free_communications]
    /\ i' = 0
    /\ pc' = "moveInformation"
    /\ UNCHANGED <<calls, coda, fullYear, lines, state, result, drop, handed, thrown>>

\* movement.sequence === information.sequence &&
\* movement.reference_number === information.reference_number; a property that
\* an object does not have is undefined, and undefined === undefined
sameMovement(movement, information) ==
    /\ Prop(movement, "sequence") = Prop(information, "sequence")
    /\ Prop(movement, "reference_number") = Prop(information, "reference_number")

\* the movement, were the information list replaced at each push
attachedAlone(movement, information) ==
    ("information" :> <<information>>) @@ movement

\* movement.information = movement.information ?? [];
\* movement.information.push(information)
attached(movement, information) ==
    ("information" :> Append(IF "information" \in DOMAIN movement
                             THEN movement.information ELSE <<>>, information))
        @@ movement

\* the movements, were the inner loop left at the first movement that matches
firstMatchingMovement(movements, h, information) ==
    LET matching == SelectSeq(movements, LAMBDA m : sameMovement(h[m], h[information]))
    IN  IF matching = <<>> THEN <<>> ELSE <<matching[1]>>

\* the movements that the inner loop `for (let movement of result.movements)`
\* finds with the keys of the information (index.ts 267-280): all of them, in
\* the order of the list, since the loop has no break
matchingMovements(movements, h, information) ==
    SelectSeq(movements, LAMBDA m : sameMovement(h[m], h[information]))

\* one iteration of the outer loop of "Move information records to the correct
\* movement record" (index.ts 264-281): the information is pushed to every
\* movement that matches, and to drop once for each of them
MoveInformation ==
    /\ pc = "moveInformation"
    /\ i < Len(result.information)
    /\ \E information \in {result.information[i + 1]} :
       \E matching \in {matchingMovements(result.movements, heap, information)} :
          /\ heap' = [ref \in DOMAIN heap |->
                         IF ref \in Elements(matching)
                         THEN attached(heap[ref], information) ELSE heap[ref]]
          /\ drop' = drop \o [k \in 1..Len(matching) |-> information]
    /\ i' = i + 1
    /\ UNCHANGED <<calls, coda, fullYear, pc, lines, state, result, handed, merged, thrown>>

\* the end of the pass (index.ts 284-286), and `return result`
ReturnResult ==
    /\ pc = "moveInformation"
    /\ i >= Len(result.information)
    /\ result' = [result EXCEPT !.information = removeDropped(@, drop)]
    /\ drop' = <<>>
    /\ pc' = "done"
    /\ UNCHANGED <<calls, coda, fullYear, lines, i, state, heap, handed, merged, thrown>>

\* the local variables of parse after `let lines = coda.trim().split('\n')`
\* (index.ts 9-32), for a text and a clock year drawn from the given sets
Called(texts, years) ==
    /\ coda \in texts
    /\ fullYear \in years
    /\ lines = split(trim(coda))
    /\ pc = "lines"
    /\ i = 0
    /\ state = [accountStructureData |-> Null]
    /\ result = [header |-> EmptyObject,
                 balance |-> [old |-> EmptyObject, new |-> EmptyObject],
                 movements |-> <<>>,
                 information |-> <<>>,
                 free_communications |-> <<>>,
                 trailer |-> EmptyObject]
    /\ heap = <<>>
    /\ drop = <<>>
    /\ handed = <<>>
    /\ merged = <<>>
    /\ thrown = <<>>
    /\ calls = <<>>

Next ==
    \/ DecodeLine
    \/ MergeMovement
    \/ DropMovements
    \/ MergeInformation
    \/ DropInformation
    \/ MergeFreeCommunication
    \/ DropFreeCommunications
    \/ Cleanup
    \/ MoveInformation
    \/ ReturnResult

\* ------------------------------------------------------------------------
\* Calls of parse after the first
\* ------------------------------------------------------------------------

\* the number of calls of parse in a run
MaxCalls == 3

\* `state`, were it a variable of the module: what the call before left in it
keptState(previous) == previous

\* `let state = { accountStructureData: null }` (index.ts 29-31): state is a
\* local variable of parse, each call begins with a new object, whatever the
\* call before left
freshState(previous) == [accountStructureData |-> Null]

\* what a call that has ended gave to its caller: the result with the objects
\* that its lists refer to, or the Error thrown
returned == [coda |-> coda, fullYear |-> fullYear, result |-> result, heap |-> heap,
             threw |-> (pc = "thrown"), thrown |-> thrown]

\* ------------------------------------------------------------------------
\* The statements that parse is called with
\* ------------------------------------------------------------------------

Blank(n) == [k \in 1..n |-> " "]

\* a fixed-width field: the text, cut or filled with blanks to n characters
Field(text, n) ==
    IF Len(text) >= n THEN SubSeq(text, 1, n) ELSE text \o Blank(n - Len(text))

\* a line of a header record 0, in the columns that parseHeader reads
HeaderLine(date, name) ==
    <<"0">> \o <<"0", "0", "0", "0">> \o Field(date, 6) \o <<"7", "2", "5">> \o <<"0", "5">> \o <<" ">>
        \o Blank(7) \o Field(<<"0", "0", "0", "9", "9", "4", "4", "9">>, 10) \o Field(name, 26) \o Field(<<"K", "R", "E", "D", "B", "E", "B", "B">>, 11)
        \o Field(<<"0", "0", "6", "3", "0", "3", "6", "6", "2", "7", "7">>, 11) \o Blank(1) \o <<"0", "0", "0", "0", "0">> \o Blank(16) \o Blank(16)
        \o Blank(7) \o <<"2">>

\* a line of an old balance record 1, in the columns that parseOldBalance reads
OldBalanceLine(structure, account, sign, amount, date) ==
    <<"1", structure>> \o <<"0", "0", "1">> \o Field(account, 37) \o <<sign>> \o Field(amount, 15)
        \o Field(date, 6) \o Field(<<"A", "C", "M", "E">>, 26) \o Blank(35) \o <<"0", "0", "1">>

\* a line of a movement record 2.1, in the columns that parseMovement21 reads
Movement21Line(sequence, reference, sign, amount, value_date, transaction_code, communication_type, communication, entry_date, next_code) ==
    <<"2", "1">> \o Field(sequence, 4) \o <<"0", "0", "0", "0">> \o Field(reference, 21) \o <<sign>>
        \o Field(amount, 15) \o Field(value_date, 6) \o Field(transaction_code, 8)
        \o <<communication_type>> \o Field(communication, 53) \o Field(entry_date, 6)
        \o <<"0", "0", "1">> \o <<"0", next_code, " ", "0">>

\* a line of a movement record 2.2, in the columns that parseMovement22 reads
Movement22Line(sequence, communication, next_code) ==
    <<"2", "2">> \o Field(sequence, 4) \o <<"0", "0", "0", "0">> \o Field(communication, 53)
        \o Blank(35) \o Field(<<"K", "R", "E", "D", "B", "E", "B", "B">>, 11) \o Blank(3) \o Blank(13)
        \o <<next_code, " ", "0">>

\* a line of a movement record 2.3, in the columns that parseMovement23 reads
Movement23Line(sequence, communication, next_code) ==
    <<"2", "3">> \o Field(sequence, 4) \o <<"0", "0", "0", "0">> \o Field(<<"B", "E", "1", "9", "0", "0", "1", "2", "8", "8", "7", "7", "3", "4", "1", "0", " ", "E", "U", "R">>, 37)
        \o Field(<<"A", "C", "M", "E">>, 35) \o Field(communication, 33) \o Blank(10)
        \o <<next_code, " ", "0">>

\* a line of an information record 3.1, in the columns that
\* parseAdditionalInformation31 reads
Information31Line(sequence, reference, communication_type, communication, next_code) ==
    <<"3", "1">> \o Field(sequence, 4) \o <<"0", "0", "0", "0">> \o Field(reference, 21)
        \o <<"0", "0", "1", "5", "0", "0", "0", "0">> \o <<communication_type>> \o Field(communication, 73)
        \o Blank(12) \o <<next_code, " ", "0">>

\* a line of an information record 3.2, in the columns that
\* parseAdditionalInformation32 reads
Information32Line(sequence, communication, next_code) ==
    <<"3", "2">> \o Field(sequence, 4) \o <<"0", "0", "0", "0">> \o Field(communication, 105)
        \o Blank(10) \o <<next_code, " ", "0">>

\* a line of an information record 3.3, in the columns that
\* parseAdditionalInformation33 reads
Information33Line(sequence, communication, next_code) ==
    <<"3", "3">> \o Field(sequence, 4) \o <<"0", "0", "0", "0">> \o Field(communication, 90)
        \o Blank(25) \o <<next_code, " ", "0">>

\* a line of a new balance record 8, in the columns that parseNewBalance reads
NewBalanceLine(account, sign, amount, date) ==
    <<"8">> \o <<"0", "0", "1">> \o Field(account, 37) \o <<sign>> \o Field(amount, 15)
        \o Field(date, 6) \o Blank(64) \o <<"0">>

\* a line of a free communication record 4, in the columns that
\* parseFreeCommunication reads
FreeCommunicationLine(sequence, text, link_code) ==
    <<"4", " ">> \o Field(sequence, 4) \o <<"0", "0", "0", "0">> \o Blank(22) \o Field(text, 80)
        \o Blank(15) \o <<link_code>>

\* a line of a trailer record 9, in the columns that parseTrailer reads
TrailerLine(number_of_records, debit_amount, credit_amount) ==
    <<"9">> \o Blank(15) \o Field(number_of_records, 6) \o Field(debit_amount, 15)
        \o Field(credit_amount, 15) \o Blank(75) \o <<"2">>

\* the texts of at most n lines drawn from a set of lines, joined by '\n'
RECURSIVE Statements(_, _)
Statements(pool, n) ==
    IF n = 0 THEN {}
    ELSE pool \cup {text \o <<"\n">> \o line : text \in Statements(pool, n - 1),
                                               line \in pool}


\* ------------------------------------------------------------------------
\* Statements of chained records
\* ------------------------------------------------------------------------

\* the largest number of lines of a statement
MaxLines == 3

\* the years of the system clock
Years == {2026}

\* a structured communication of type 108 that fills the 53 columns of a
\* movement record 2.1: the equivalent (15), the calculation basis (15), the
\* interest (12), the first date of the period (6) and the first two
\* characters of its last date, which the next record of the chain continues
Communication108 ==
    <<"1", "0", "8", "0", "0", "0", "0", "0", "0", "0", "0", "0", "1", "2", "5", "0", "0", "0">>
        \o <<"0", "0", "0", "0", "0", "0", "0", "1", "0", "0", "0", "0", "0", "0", "0">>
        \o <<"0", "0", "0", "0", "0", "0", "1", "2", "5", "0", "0", "0">>
        \o <<"0", "1", "0", "1", "2", "6", "3", "1">>

ChainLines ==
    {\* 2.1, unstructured, continued
     Movement21Line(<<"0", "0", "0", "1">>, <<"R", "E", "F", " ", "A">>, "0", <<"0", "0", "0", "0", "0", "0", "0", "0", "0", "0", "1", "2", "5", "0", "0">>, <<"2", "4", "1", "2", "1", "4">>, <<"0", "0", "1", "5", "0", "0", "0", "0">>, "0", <<"A", "B", " ", " ", " ", "C">>, <<"2", "4", "1", "2", "1", "4">>, "1"),
     \* 2.1, unstructured, not continued
     Movement21Line(<<"0", "0", "0", "2">>, <<"R", "E", "F", " ", "B">>, "1", <<"0", "0", "0", "0", "0", "0", "0", "0", "0", "0", "1", "2", "5", "0", "0">>, <<"2", "4", "1", "2", "1", "4">>, <<"0", "0", "1", "5", "0", "0", "0", "0">>, "0", <<" ", "X", " ", " ", "Y", " ">>, <<"2", "4", "1", "2", "1", "4">>, "0"),
     \* 2.1, structured of type 108, continued
     Movement21Line(<<"0", "0", "0", "1">>, <<"R", "E", "F", " ", "A">>, "0", <<"0", "0", "0", "0", "0", "0", "0", "0", "0", "0", "1", "2", "5", "0", "0">>, <<"2", "4", "1", "2", "1", "4">>, <<"0", "0", "1", "5", "0", "0", "0", "0">>, "1", Communication108, <<"2", "4", "1", "2", "1", "4">>, "1"),
     \* 2.1, structured, the type written 1e2
     Movement21Line(<<"0", "0", "0", "1">>, <<"R", "E", "F", " ", "A">>, "0", <<"0", "0", "0", "0", "0", "0", "0", "0", "0", "0", "1", "2", "5", "0", "0">>, <<"2", "4", "1", "2", "1", "4">>, <<"0", "0", "1", "5", "0", "0", "0", "0">>, "1", <<"1", "e", "2", "A", "B", "C">>, <<"2", "4", "1", "2", "1", "4">>, "0"),
     \* 2.1, structured of the unknown type 104
     Movement21Line(<<"0", "0", "0", "1">>, <<"R", "E", "F", " ", "A">>, "0", <<"0", "0", "0", "0", "0", "0", "0", "0", "0", "0", "1", "2", "5", "0", "0">>, <<"2", "4", "1", "2", "1", "4">>, <<"0", "0", "1", "5", "0", "0", "0", "0">>, "1", <<"1", "0", "4", "A", "B", "C">>, <<"2", "4", "1", "2", "1", "4">>, "0"),
     \* 2.2, continued, and 2.3, the last of its chain
     Movement22Line(<<"0", "0", "0", "1">>, <<"0", "1", "2", "6", " ", "D", "E">>, "1"),
     Movement23Line(<<"0", "0", "0", "1">>, <<"F", " ", "G">>, "0"),
     \* 3.1, unstructured, not continued
     Information31Line(<<"0", "0", "0", "1">>, <<"R", "E", "F", " ", "A">>, "0", <<"G", "H">>, "0"),
     \* 3.1, structured of type 001, continued
     Information31Line(<<"0", "0", "0", "2">>, <<"R", "E", "F", " ", "B">>, "1", <<"0", "0", "1", "N", "A", "M", "E", " ", "O", "F", " ", " ", "T", "H", "E", " ", "P", "A", "R", "T", "Y">>, "1"),
     \* 3.1, structured of the unknown type 003
     Information31Line(<<"0", "0", "0", "1">>, <<"R", "E", "F", " ", "A">>, "1", <<"0", "0", "3", "A", "B", "C">>, "0"),
     \* 3.2, the last of its chain
     Information32Line(<<"0", "0", "0", "2">>, <<"I", "J">>, "0"),
     \* 4, continued and not continued
     FreeCommunicationLine(<<"0", "0", "0", "1">>, <<"K", " ", " ", "L">>, "1"),
     FreeCommunicationLine(<<"0", "0", "0", "1">>, <<"M", "N">>, "0"),
     \* a line of no record type
     Field(<<"5", " ", "N", "O", "T", " ", "A", " ", "R", "E", "C", "O", "R", "D">>, 128)}

ChainInit == Called(Statements(ChainLines, MaxLines), Years)

Spec == ChainInit /\ [][Next]_vars

\* ------------------------------------------------------------------------
\* Statements of balances and dates
\* ------------------------------------------------------------------------

\* a structured communication of type 127 whose settlement date is 000000
Communication127 == <<"1", "2", "7", "0", "0", "0", "0", "0", "0">>

BalanceLines ==
    {\* 0, the date 000000
     HeaderLine(UnknownDate, <<"A", "C", "M", "E">>),
     \* 1, a credit on an account of structure 0
     OldBalanceLine("0", <<"0", "0", "1", "2", "8", "8", "7", "7", "3", "4", "1", "0", " ", "E", "U", "R", "0", "B", "E">>, SignCredit, <<"0", "0", "0", "0", "0", "0", "0", "0", "4", "0", "0", "4", "1", "0", "0">>, <<"2", "4", "1", "2", "1", "4">>),
     \* 1, a debit on an account of structure 3, the date 000000
     OldBalanceLine("3", <<"B", "E", "1", "9", "0", "0", "1", "2", "8", "8", "7", "7", "3", "4", "1", "0", " ", "E", "U", "R">>, SignDebit, <<"0", "0", "0", "0", "0", "0", "0", "0", "0", "1", "2", "5", "0", "0", "0">>, UnknownDate),
     \* 1, a credit on an account of the structure 9, which parseAccount has no
     \* case for
     OldBalanceLine("9", <<"B", "E", "1", "9", "0", "0", "1", "2", "8", "8", "7", "7", "3", "4", "1", "0", " ", "E", "U", "R">>, SignCredit, <<"0", "0", "0", "0", "0", "0", "0", "0", "0", "1", "2", "5", "0", "0", "0">>, <<"2", "4", "1", "2", "1", "4">>),
     \* 8, a debit
     NewBalanceLine(<<"B", "E", "1", "9", "0", "0", "1", "2", "8", "8", "7", "7", "3", "4", "1", "0", " ", "E", "U", "R">>, SignDebit, <<"0", "0", "0", "0", "0", "0", "0", "0", "1", "7", "6", "7", "8", "2", "0">>, <<"1", "2", "0", "5", "1", "5">>),
     \* 8, a credit, the date 000000
     NewBalanceLine(<<"B", "E", "1", "9", "0", "0", "1", "2", "8", "8", "7", "7", "3", "4", "1", "0", " ", "E", "U", "R">>, SignCredit, <<"0", "0", "0", "0", "0", "0", "0", "0", "0", "1", "2", "5", "0", "0", "0">>, UnknownDate),
     \* 2.1, a debit, the value date and the entry date 000000
     Movement21Line(<<"0", "0", "0", "1">>, <<"R", "E", "F", " ", "A">>, SignDebit, <<"0", "0", "0", "0", "0", "0", "0", "0", "1", "7", "6", "7", "8", "2", "0">>, UnknownDate, <<"0", "0", "1", "5", "0", "0", "0", "0">>, "0", <<"A", "B", " ", "C">>, UnknownDate, "0"),
     \* 2.1, a credit, structured of type 127
     Movement21Line(<<"0", "0", "0", "2">>, <<"R", "E", "F", " ", "B">>, SignCredit, <<"0", "0", "0", "0", "0", "0", "0", "0", "2", "0", "0", "4", "1", "0", "0">>, <<"2", "4", "1", "2", "1", "4">>, <<"0", "0", "1", "5", "0", "0", "0", "0">>, "1", Communication127, <<"2", "4", "1", "2", "1", "4">>, "0"),
     \* 3.1, of the first movement
     Information31Line(<<"0", "0", "0", "1">>, <<"R", "E", "F", " ", "A">>, "0", <<"G", "H">>, "0"),
     \* 4
     FreeCommunicationLine(<<"0", "0", "0", "1">>, <<"M", "N">>, "0")}

BalanceInit == Called(Statements(BalanceLines, MaxLines), Years)

SpecBalances == BalanceInit /\ [][Next]_vars

\* ------------------------------------------------------------------------
\* Statements of transaction codes
\* ------------------------------------------------------------------------

\* transaction codes of 8 characters: a type, a family, a transaction and a
\* category, each drawn from values that its table has and values that it does
\* not have
TransactionCodes ==
    {type \o family \o transaction \o category :
        type \in {<<"0">>, <<"9">>},
        family \in {<<"0", "1">>, <<"0", "4">>, <<"3", "5">>, <<"8", "0">>, <<"9", "9">>, <<" ", " ">>},
        transaction \in {<<"0", "1">>, <<"3", "7">>, <<"9", "9">>, <<"A", "B">>},
        category \in {<<"0", "0", "0">>, <<"2", "0", "2">>, <<"4", "3", "8">>, <<"9", "9", "9">>}}

\* a movement 2.1 with the transaction code, its information record 3.1 and a
\* free communication
CodeStatements ==
    {join(<<Movement21Line(<<"0", "0", "0", "1">>, <<"R", "E", "F", " ", "A">>, SignCredit, <<"0", "0", "0", "0", "0", "0", "0", "0", "0", "1", "2", "5", "0", "0", "0">>, <<"2", "4", "1", "2", "1", "4">>, code, "0", <<"A", "B", " ", "C">>, <<"2", "4", "1", "2", "1", "4">>, "0"),
            Information31Line(<<"0", "0", "0", "1">>, <<"R", "E", "F", " ", "A">>, "0", <<"G", "H">>, "0"),
            FreeCommunicationLine(<<"0", "0", "0", "1">>, <<"M", "N">>, "0")>>, <<"\n">>) :
        code \in TransactionCodes}

CodeInit == Called(CodeStatements, Years)

SpecTransactionCodes == CodeInit /\ [][Next]_vars

\* ------------------------------------------------------------------------
\* Properties
\* ------------------------------------------------------------------------

\* the characters that begin a line of a known record type
KnownRecordTypes == {"0", "1", "2", "3", "4", "8", "9"}

\* line k of the statement is of no known record type (an empty line has no
\* first character)
UnknownLine(k) == At(lines[k], 0) \notin KnownRecordTypes

\* C1: when a line of the statement begins with a character outside 0, 1, 2,
\* 3, 4, 8, 9, parse never gets past that line and never returns: it is
\* decoding a line before it, or it has thrown; and when the lines before all
\* decoded, what it throws at that line is 'Unknown record type'.
C1_UnknownRecordTypeThrows ==
    \A k \in 1..Len(lines) :
        UnknownLine(k) =>
            /\ pc \in {"lines", "thrown"}
            /\ i < k
            /\ (pc = "thrown" /\ i = k - 1) => thrown = "Unknown record type"

\* C1, the case: parse has thrown at a line of no known type that follows a
\* line that decoded
C1_Witness ==
    /\ pc = "thrown"
    /\ i >= 1
    /\ UnknownLine(i + 1)
    /\ \A k \in 1..i : ~UnknownLine(k)
    /\ thrown = "Unknown record type"

\* the numbers of the lines of the statement that are movement records 2.1,
\* 2.2 or 2.3, in the order of the statement
MovementLines ==
    SelectSeq([k \in 1..Len(lines) |-> k],
              LAMBDA k : \/ startsWith(lines[k], <<"2", "1">>)
                         \/ startsWith(lines[k], <<"2", "2">>)
                         \/ startsWith(lines[k], <<"2", "3">>))

\* the columns of a movement line that hold its fragment of the communication
MovementFragment(line) ==
    IF line[2] = "1" THEN SubSeq(line, 63, 115)
    ELSE IF line[2] = "2" THEN SubSeq(line, 11, 63)
    ELSE SubSeq(line, 83, 115)

\* the movement lines at the places p..q of MovementLines are a chain: the
\* first is an article 1, each but the last has the next code 1 and the last
\* has the next code 0
MovementChain(p, q) ==
    /\ lines[MovementLines[p]][2] = "1"
    /\ \A j \in p..(q - 1) : lines[MovementLines[j]][126] = "1"
    /\ lines[MovementLines[q]][126] = "0"

\* the fragments of the movement lines at the places p..q, one after the other
MovementFragments(p, q) ==
    LET upTo[j \in (p - 1)..q] ==
            IF j = p - 1 THEN <<>>
            ELSE upTo[j - 1] \o MovementFragment(lines[MovementLines[j]])
    IN  upTo[q]

\* C2: the communication that the merge of the movements hands to
\* parseCommunicationMovement for the root of a chain of N movement records
\* (an article 1, the next code 1 on all but the last, 0 on the last) is the
\* fragments of the N records, columns [62,115) of a 2.1, [10,63) of a 2.2 and
\* [82,115) of a 2.3, one after the other in the order of the statement.
C2_ChainCommunicationIsConcatenation ==
    \A e \in 1..Len(handed) :
        handed[e].pass = "movements" =>
            \A p \in 1..Len(MovementLines) : \A q \in p..Len(MovementLines) :
                (MovementLines[p] = handed[e].root /\ MovementChain(p, q)) =>
                    handed[e].communication = MovementFragments(p, q)

\* C2, the case: a chain of a 2.1, a 2.2 and a 2.3 was merged and handed over
C2_Witness ==
    \E e \in 1..Len(handed) :
        /\ handed[e].pass = "movements"
        /\ Len(handed[e].consumed) = 2
        /\ \E p \in 1..Len(MovementLines) :
              /\ MovementLines[p] = handed[e].root
              /\ p + 2 <= Len(MovementLines)
              /\ MovementChain(p, p + 2)
              /\ lines[MovementLines[p + 1]][2] = "2"
              /\ lines[MovementLines[p + 2]][2] = "3"
              /\ handed[e].communication = MovementFragments(p, p + 2)


\* C3: for the chains of every pass (movements, information, free
\* communications): when the statement ends while the flag that continues the
\* chain is 1, so that the inner loop is left by break, no exception is thrown
\* for the chain, whatever its communication type, and the root is handed over
\* with what was accumulated.
C3_TruncatedChainNeverThrows ==
    \A e \in 1..Len(handed) :
        handed[e].broke =>
            /\ ~IsErr(handed[e].outcome)
            /\ pc # "thrown"

\* the movements, the information records and the free communications of the
\* document that parse returns, with the information records that were moved
\* into a movement
NestedInformation ==
    UNION {Elements(heap[m].information) :
               m \in {r \in Elements(result.movements) : "information" \in DOMAIN heap[r]}}

\* the keys (sequence, reference_number) are on both records and are equal
SameKeys(movement, information) ==
    /\ {"sequence", "reference_number"} \subseteq DOMAIN movement
    /\ {"sequence", "reference_number"} \subseteq DOMAIN information
    /\ movement.sequence = information.sequence
    /\ movement.reference_number = information.reference_number

\* C4: when parse has returned, every information record left by the merge of
\* the information that has the sequence and the reference_number of a
\* movement left by the merge of the movements is an element of the
\* information list of that movement, and is not an element of the top-level
\* information list.
C4_InformationLinkedToMovement ==
    pc = "done" =>
        \A m \in Elements(merged.movements) : \A n \in Elements(merged.information) :
            SameKeys(heap[m], heap[n]) =>
                /\ "information" \in DOMAIN heap[m]
                /\ n \in Elements(heap[m].information)
                /\ n \notin Elements(result.information)

\* C4, the case: parse has returned a movement that holds two information
\* records with its keys, another information record stays at the top level
C4_Witness ==
    /\ pc = "done"
    /\ \E m \in Elements(merged.movements) :
          /\ "information" \in DOMAIN heap[m]
          /\ Len(heap[m].information) = 2
          /\ \A k \in 1..2 : SameKeys(heap[m], heap[heap[m].information[k]])
          /\ \A k \in 1..2 : heap[m].information[k] \notin Elements(result.information)

\* the types of structured communication that parseCommunicationMovement and
\* parseCommunicationDetail have a case for
KnownMovementTypes ==
    {<<"1", "0", "0">>, <<"1", "0", "1">>, <<"1", "0", "2">>, <<"1", "0", "3">>,
     <<"1", "0", "5">>, <<"1", "0", "6">>, <<"1", "0", "8">>, <<"1", "1", "1">>,
     <<"1", "1", "3">>, <<"1", "1", "4">>, <<"1", "1", "5">>, <<"1", "2", "1">>,
     <<"1", "2", "2">>, <<"1", "2", "3">>, <<"1", "2", "4">>, <<"1", "2", "5">>,
     <<"1", "2", "6">>, <<"1", "2", "7">>}

KnownInformationTypes ==
    {<<"0", "0", "1">>, <<"0", "0", "2">>, <<"0", "0", "4">>, <<"0", "0", "5">>,
     <<"0", "0", "6">>, <<"0", "0", "7">>, <<"0", "0", "8">>, <<"0", "0", "9">>,
     <<"0", "1", "0">>, <<"0", "1", "1">>}

\* C7: when the root of a chain of movements or of information records is
\* structured and the first three characters of its merged communication are
\* not a known type (100, 101, 102, 103, 105, 106, 108, 111, 113, 114, 115,
\* 121..127 for a movement; 001, 002, 004..011 for an information record),
\* parse throws.
C7_UnknownStructuredTypeThrows ==
    \A e \in 1..Len(handed) :
        /\ (/\ handed[e].pass = "movements"
            /\ handed[e].type = "structured"
            /\ Slice(handed[e].communication, 0, 3) \notin KnownMovementTypes)
               => (IsErr(handed[e].outcome) /\ pc = "thrown")
        /\ (/\ handed[e].pass = "information"
            /\ handed[e].type = "structured"
            /\ Slice(handed[e].communication, 0, 3) \notin KnownInformationTypes)
               => (IsErr(handed[e].outcome) /\ pc = "thrown")

\* the records of the document that parse returns
ReturnedRecords ==
    Elements(result.movements) \cup Elements(result.information)
        \cup NestedInformation \cup Elements(result.free_communications)

\* C10: when parse has returned, no movement, no information record (at the
\* top level or in the information list of a movement) and no free
\* communication of the document has a next_code or a link_code.
C10_NoChainFlagsReturned ==
    pc = "done" =>
        \A r \in ReturnedRecords :
            DOMAIN heap[r] \cap {"next_code", "link_code"} = {}

\* C10, the case: parse has returned a movement that holds an information
\* record, and a free communication
C10_Witness ==
    /\ pc = "done"
    /\ NestedInformation # {}
    /\ result.free_communications # <<>>
    /\ result.movements # <<>>


\* an exception left parse in the first loop, at line i + 1: no chain was
\* handed over, or the last that was did not throw
DecodeThrew ==
    /\ pc = "thrown"
    /\ handed = <<>> \/ ~IsErr(handed[Len(handed)].outcome)

\* the number of lines that the first loop has decoded
Decoded == IF pc = "lines" \/ DecodeThrew THEN i ELSE Len(lines)

\* the decoded lines that begin with the given character
DecodedLines(type) == {k \in 1..Decoded : At(lines[k], 0) = type}

\* the last of them
LastLine(type) == MaxOf(DecodedLines(type))

\* no chain was merged yet: the records of the heap are as their lines decoded
Unmerged == pc \in {"lines", "mergeMovements"} /\ handed = <<>>

\* the decoded lines of movement records 2.1
DecodedMovements21 == {k \in DOMAIN heap : startsWith(lines[k], <<"2", "1">>)}

\* the digits of columns [a, b) of a line, as a number
Magnitude(line, a, b) == DecimalValue(SubSeq(line, a + 1, b))

\* +1 for the sign digit 0, -1 for the sign digit 1
SignOf(digit) == IF digit = "0" THEN 1 ELSE -1

\* the number num / den is magnitude / 1000 * sign, for a denominator that
\* divides 1000
Thousandths(num, den, magnitude, sign) ==
    LET q == 1000 \div den
    IN  den * q = 1000 /\ magnitude % q = 0 /\ num = (magnitude \div q) * sign

\* C5: the amount decoded from every signed fixed-point field (the balance of
\* an old balance, the balance of a new balance, the amount of a movement
\* 2.1), of 15 digits with a sign digit 0 or 1, is the digits divided by 1000,
\* multiplied by +1 for the sign 0 and by -1 for the sign 1: never the raw
\* integer.
C5_AmountsAreThousandths ==
    /\ DecodedLines("1") # {} =>
           Thousandths(result.balance.old.balance, 1,
                       Magnitude(lines[LastLine("1")], 43, 58),
                       SignOf(lines[LastLine("1")][43]))
    /\ DecodedLines("8") # {} =>
           Thousandths(result.balance.new.balance.num, result.balance.new.balance.den,
                       Magnitude(lines[LastLine("8")], 42, 57),
                       SignOf(lines[LastLine("8")][42]))
    /\ Unmerged =>
           \A k \in DecodedMovements21 :
               Thousandths(heap[k].amount.num, heap[k].amount.den,
                           Magnitude(lines[k], 32, 47), SignOf(lines[k][32]))

\* the Date that parseDate builds from 000000: the century of the clock, then
\* 00-00-00
ZeroDate == Date(NumberKey(fullYear \div 100) \o <<"0", "0", "-", "0", "0", "-", "0", "0">>)

\* the settlement date of the payload of a structured communication of type
\* 127 is 000000
ZeroSettlement(entry) ==
    /\ entry.pass = "movements"
    /\ entry.type = "structured"
    /\ Slice(entry.communication, 0, 3) = <<"1", "2", "7">>
    /\ Slice(entry.communication, 3, 9) = UnknownDate

\* a date field of line k holds 000000
ZeroDateLine(k) ==
    \/ At(lines[k], 0) = "0" /\ Slice(lines[k], 5, 11) = UnknownDate
    \/ At(lines[k], 0) = "1" /\ Slice(lines[k], 58, 64) = UnknownDate
    \/ At(lines[k], 0) = "8" /\ Slice(lines[k], 57, 63) = UnknownDate
    \/ /\ startsWith(lines[k], <<"2", "1">>)
       /\ UnknownDate \in {Slice(lines[k], 47, 53), Slice(lines[k], 115, 121)}

\* the dates decoded from the fields that hold 000000 are the given value: the
\* date of the header, of the old and of the new balance, the entry date of a
\* movement 2.1 and the settlement date of a payload of type 127
ZeroDatesDecodeTo(value) ==
    /\ (DecodedLines("0") # {} /\ Slice(lines[LastLine("0")], 5, 11) = UnknownDate)
           => result.header.date = value
    /\ (DecodedLines("1") # {} /\ Slice(lines[LastLine("1")], 58, 64) = UnknownDate)
           => result.balance.old.date = value
    /\ (DecodedLines("8") # {} /\ Slice(lines[LastLine("8")], 57, 63) = UnknownDate)
           => result.balance.new.date = value
    /\ Unmerged =>
           \A k \in DecodedMovements21 :
               Slice(lines[k], 115, 121) = UnknownDate => heap[k].entry_date = value
    /\ \A e \in 1..Len(handed) :
           ZeroSettlement(handed[e]) =>
               /\ ~IsErr(handed[e].outcome)
               /\ handed[e].outcome.value[2].settlement_date = value

\* the value date of a movement 2.1 whose field holds 000000 is null
ZeroValueDatesAreNull ==
    Unmerged =>
        \A k \in DecodedMovements21 :
            Slice(lines[k], 47, 53) = UnknownDate => heap[k].value_date = Null

\* no line with a date field that holds 000000 throws
ZeroDatesNeverThrow ==
    \A k \in 1..Len(lines) : ZeroDateLine(k) => ~(DecodeThrew /\ i = k - 1)

\* C6 as stated: wherever a 6-digit date field holds 000000 (the date of the
\* header, of the old and of the new balance, the value date and the entry
\* date of a movement 2.1, a date inside a structured payload), the decoded
\* value is null, never a Date, and nothing is thrown.
C6_ZeroDateIsAbsent ==
    /\ ZeroDatesNeverThrow
    /\ ZeroValueDatesAreNull
    /\ ZeroDatesDecodeTo(Null)

\* C6, amended: nothing is thrown for a 6-digit date field that holds 000000;
\* the value date of a movement 2.1 that holds 000000 is decoded to null; a
\* 000000 in any other date field (the date of the header, of the old or of
\* the new balance, the entry date of a movement 2.1, a date inside a
\* structured payload) is decoded like any other 6 digits, to the Date built
\* from the century of the clock and 00-00-00, never to null.
C6_OnlyValueDateIsAbsent ==
    /\ ZeroDatesNeverThrow
    /\ ZeroValueDatesAreNull
    /\ ZeroDatesDecodeTo(ZeroDate)

\* C6, the case: parse has returned a movement decoded from a line whose value
\* date and entry date hold 000000, after a header whose date holds 000000
C6_Witness ==
    /\ pc = "done"
    /\ DecodedLines("0") # {}
    /\ Slice(lines[LastLine("0")], 5, 11) = UnknownDate
    /\ result.header.date = ZeroDate
    /\ \E m \in Elements(result.movements) :
          /\ Slice(lines[m], 47, 53) = UnknownDate
          /\ Slice(lines[m], 115, 121) = UnknownDate
          /\ heap[m].value_date = Null
          /\ heap[m].entry_date = ZeroDate

\* the old balance lines that are before line k of the statement
OldBalancesBefore(k) == {p \in 1..(k - 1) : At(lines[p], 0) = "1"}

\* C9: the account of the new balance is decoded with the account structure
\* (the second character) of the last old balance line that is before the
\* new balance line in the statement; when no old balance line is before it,
\* even if one follows, the account is the empty object; and the new balance
\* line throws nothing.
C9_NewBalanceUsesPrecedingStructure ==
    /\ \A k \in 1..Len(lines) : At(lines[k], 0) = "8" => ~(DecodeThrew /\ i = k - 1)
    /\ DecodedLines("8") # {} =>
           LET k == LastLine("8")
           IN  IF OldBalancesBefore(k) = {}
               THEN DOMAIN result.balance.new.account = {}
               ELSE result.balance.new.account =
                        parseAccount(DigitValue(lines[MaxOf(OldBalancesBefore(k))][2]),
                                     SubSeq(lines[k], 5, 41))

\* C9, the case: parse has returned after a new balance line that follows two
\* old balance lines of different structures
C9_Witness ==
    /\ pc = "done"
    /\ Len(lines) = 3
    /\ At(lines[1], 0) = "1"
    /\ At(lines[2], 0) = "1"
    /\ At(lines[3], 0) = "8"
    /\ lines[1][2] # lines[2][2]
    /\ "type" \in DOMAIN result.balance.new.account
    /\ result.balance.new.account.type = DigitValue(lines[2][2])


\* the transaction codes of the records that were decoded
DecodedCodes ==
    {heap[k].transaction_code : k \in {r \in DOMAIN heap : "transaction_code" \in DOMAIN heap[r]}}

\* the keys of a lookup, but for its catch-all
Keys(lookup) == DOMAIN lookup \ {wildcard}

\* the sentinel is returned
IsUnknown(outcome) == ~IsErr(outcome) /\ outcome.value = "<Unknown>"

\* C8: reading family_description, transaction_description and
\* category_description of the transaction code of 8 characters of a decoded
\* record never throws; a family, a transaction or a category that its table
\* does not have yields '<Unknown>', and a family that the table does not have
\* yields '<Unknown>' for transaction_description, whatever the transaction.
C8_UnknownCodesYieldSentinel ==
    \A code \in DecodedCodes :
        /\ ~IsErr(family_description(code))
        /\ ~IsErr(transaction_description(code))
        /\ ~IsErr(category_description(code))
        /\ code.family \notin Keys(familyLookup) =>
               /\ IsUnknown(family_description(code))
               /\ IsUnknown(transaction_description(code))
        /\ (/\ code.family \in Keys(transactionFamilyLookup)
            /\ code.transaction \notin Keys(transactionFamilyLookup[code.family])) =>
               IsUnknown(transaction_description(code))
        /\ code.category \notin Keys(categoryLookup) =>
               IsUnknown(category_description(code))

\* C8, the case: parse has returned a movement whose transaction code has a
\* family and a category that the tables do not have, and a transaction that
\* the tables of other families have
C8_Witness ==
    /\ pc = "done"
    /\ \E m \in Elements(result.movements) :
          LET code == heap[m].transaction_code
          IN  /\ Len(code.type \o code.family \o code.transaction \o code.category) = 8
              /\ code.family \notin Keys(familyLookup)
              /\ code.transaction \in Keys(transactionLookup01)
              /\ code.category \notin Keys(categoryLookup)
              /\ IsUnknown(family_description(code))
              /\ IsUnknown(transaction_description(code))
              /\ IsUnknown(category_description(code))


\* the numbers of the lines of the statement that are records of a chain kind
\* (movements 2.1, 2.2, 2.3; information records 3.1, 3.2, 3.3; free
\* communications 4), in the order of the statement
KindLines(pass) ==
    SelectSeq([k \in 1..Len(lines) |-> k],
              LAMBDA k :
                  CASE pass = "movements" ->
                         \E article \in {"1", "2", "3"} : startsWith(lines[k], <<"2", article>>)
                    [] pass = "information" ->
                         \E article \in {"1", "2", "3"} : startsWith(lines[k], <<"3", article>>)
                    [] pass = "free_communications" -> At(lines[k], 0) = "4")

\* the records that the merge pass of the kind consumed as continuations
Consumed(pass) ==
    UNION {Elements(handed[e].consumed) : e \in {h \in 1..Len(handed) : handed[h].pass = pass}}

\* the records of the kind that were not consumed, in the order of their lines
Remaining(pass) == SelectSeq(KindLines(pass), LAMBDA k : k \notin Consumed(pass))

\* C11: after the merge pass of a chain kind, the list of the kind holds no
\* record that was consumed as a continuation, holds every record that was
\* not, and keeps them in the order of their lines in the statement.
C11_MergePassKeepsUnconsumedInOrder ==
    /\ pc \in {"mergeInformation", "mergeFreeCommunications", "cleanup",
               "moveInformation", "done"}
           => result.movements = Remaining("movements")
    /\ pc \in {"mergeFreeCommunications", "cleanup", "moveInformation"}
           => result.information = Remaining("information")
    /\ pc \in {"cleanup", "moveInformation", "done"}
           => result.free_communications = Remaining("free_communications")

\* C11, the case: the merge pass of the movements has ended; it consumed a
\* record, and it left two records, the chain root after a record of no chain
C11_Witness ==
    /\ pc = "mergeInformation"
    /\ Consumed("movements") # {}
    /\ Len(result.movements) = 2
    /\ result.movements[2] \in {handed[e].root : e \in 1..Len(handed)}
    /\ result.movements = Remaining("movements")


\* ------------------------------------------------------------------------
\* Statements of dates
\* ------------------------------------------------------------------------

\* the clock of a run: a year of this century and a year of the next
DateYears == {2026, 2126}

\* the statement begins with a header that is cut after n characters: its date
\* field holds the characters that are left of the columns [5,11)
HeaderLengths == {5, 7, 9, 10, 11, 20}

\* the 6 columns of the settlement date of a payload of type 127: a date,
\* dates that trim to 4 and to 5 characters, blanks
SettlementDates ==
    {<<"2", "4", "1", "2", "1", "4">>,
     <<"2", "4", "1", "2", " ", " ">>,
     <<" ", "4", "1", "2", "1", "4">>,
     <<" ", " ", " ", " ", " ", " ">>}

\* the 10 columns of the date of a payload of type 114: two dates with a time,
\* texts that trim to 9, to 8, to 6 and to 3 characters, blanks
PosDates ==
    {<<"2", "4", "1", "2", "1", "4", "0", "9", "3", "0">>,
     <<"2", "4", "1", "2", "9", "9", "0", "9", "3", "0">>,
     <<"2", "4", "1", "2", "9", "9", "0", "9", "3", " ">>,
     <<"2", "4", "1", "2", "2", "0", "1", "4", " ", " ">>,
     <<"2", "4", "1", "2", "1", "4", " ", " ", " ", " ">>,
     <<"2", "4", "1", " ", " ", " ", " ", " ", " ", " ">>,
     <<" ", " ", " ", " ", " ", " ", " ", " ", " ", " ">>}

\* the 8 columns of the purchase or sale date of a payload of type 010: a date,
\* texts that trim to 6 and to 4 characters, blanks
PurchaseDates ==
    {<<"2", "4", "1", "2", "2", "0", "1", "4">>,
     <<"2", "4", "1", "2", "1", "4", " ", " ">>,
     <<"2", "4", "1", "2", " ", " ", " ", " ">>,
     <<" ", " ", " ", " ", " ", " ", " ", " ">>}

\* a movement 2.1 with the structured communication
DateMovement(communication) ==
    Movement21Line(<<"0", "0", "0", "1">>, <<"R", "E", "F", " ", "A">>, SignCredit, <<"0", "0", "0", "0", "0", "0", "0", "0", "0", "1", "2", "5", "0", "0", "0">>, <<"2", "4", "1", "2", "1", "4">>, <<"0", "0", "1", "5", "0", "0", "0", "0">>, "1", communication, <<"2", "4", "1", "2", "1", "4">>, "0")

\* the header of the test 'should parse the header', of 128 characters
TestedHeader ==
    <<"0", "0", "0", "0", "0", "1", "8", "0", "1", "1", "5", "2", "0", "1", "0", "5", " ", " ", " ", " ", " ", " ", " ", " ", "0", "9", "3", "8", "4", "0", "9", "9", "3", "4", "C", "O", "D", "E", "L", "I", "C", "I", "O", "U", "S", " ", " ", " ", " ", " ", " ", " ", " ", " ", " ", " ", " ", " ", " ", " ", "G", "E", "B", "A", "B", "E", "B", "B", " ", " ", " ", "0", "9", "0", "2", "9", "3", "0", "8", "2", "7", "3", " ", "0", "0", "0", "0", "1", " ", " ", " ", " ", " ", " ", " ", " ", " ", " ", "9", "8", "4", "3", "0", "9", " ", " ", " ", " ", " ", " ", " ", " ", " ", " ", "8", "3", "4", "0", "8", "0", " ", " ", " ", " ", " ", " ", " ", "2">>

\* the first lines of the statements: the header of the test, a header that is
\* cut, a movement with a payload of type 127, a movement with a payload of
\* type 114
DateLines ==
    {TestedHeader} \cup
    {Slice(HeaderLine(<<"2", "4", "1", "2", "1", "4">>, <<"A", "C", "M", "E">>), 0, n) : n \in HeaderLengths}
        \cup {DateMovement(<<"1", "2", "7">> \o date) : date \in SettlementDates}
        \cup {DateMovement(<<"1", "1", "4">> \o <<"1", "0", "0", "0", "0", "0", "1", "0", "0", "1", "0", "0", "0", "0", "0", "1">> \o date) : date \in PosDates}

\* a first line, an information record 3.1 and a free communication; or the
\* chain 3.1, 3.2, 3.3 of a payload of type 010, whose purchase or sale date
\* is in the columns [29,37) of the communication of the record 3.3
DateStatements ==
    {join(<<first,
            Information31Line(<<"0", "0", "0", "1">>, <<"R", "E", "F", " ", "A">>, "0", <<"G", "H">>, "0"),
            FreeCommunicationLine(<<"0", "0", "0", "1">>, <<"M", "N">>, "0")>>, <<"\n">>) :
        first \in DateLines}
      \cup
    {join(<<Information31Line(<<"0", "0", "0", "1">>, <<"R", "E", "F", " ", "A">>, "1", <<"0", "1", "0">>, "1"),
            Information32Line(<<"0", "0", "0", "1">>, <<>>, "1"),
            Information33Line(<<"0", "0", "0", "1">>, Blank(29) \o date, "0")>>, <<"\n">>) :
        date \in PurchaseDates}

DateInit == Called(DateStatements, DateYears)

SpecDates == DateInit /\ [][Next]_vars

\* ------------------------------------------------------------------------
\* C12, C13: the formats of the dates
\* ------------------------------------------------------------------------

DateLengths == {6, 8, 10}

\* the Date of a text of 6 (DDMMYY), 8 (DDMMYYYY) or 10 (DDMMYYHHMM)
\* characters, built in the format of that length from the year, the month and
\* the day (and the hour and the minute) in this order; no Date for a text of
\* another length
DateInFormat(text) ==
    CASE Len(text) = 6 ->
            Date(NumberKey(fullYear \div 100) \o Slice(text, 4, 6) \o <<"-">>
                     \o Slice(text, 2, 4) \o <<"-">> \o Slice(text, 0, 2))
      [] Len(text) = 8 ->
            Date(Slice(text, 4, 8) \o <<"-">> \o Slice(text, 2, 4) \o <<"-">>
                     \o Slice(text, 0, 2))
      [] Len(text) = 10 ->
            Date(Slice(text, 4, 6) \o <<"-">> \o Slice(text, 2, 4) \o <<"-">>
                     \o Slice(text, 0, 2) \o <<" ">> \o Slice(text, 6, 8) \o <<":">>
                     \o Slice(text, 8, 10) \o <<":", "0", "0">>)
      [] OTHER -> Null

\* the date of the payload of a structured communication handed to its
\* decoder: the text of the field, trimmed, and the field of the payload that
\* holds the decoded date (the settlement date of type 127, the date of type
\* 114, the purchase or sale date of type 010)
PayloadDate(entry) ==
    LET communication == entry.communication
        structuredType == Slice(communication, 0, 3)
    IN  CASE entry.type # "structured" -> [field |-> "none"]
          [] entry.pass = "movements" /\ structuredType = <<"1", "2", "7">> ->
                [field |-> "settlement_date", text |-> trim(Slice(communication, 3, 9))]
          [] entry.pass = "movements" /\ structuredType = <<"1", "1", "4">> ->
                [field |-> "date", text |-> trim(Slice(communication, 19, 29))]
          [] entry.pass = "information" /\ structuredType = <<"0", "1", "0">> ->
                [field |-> "purchase_sale_date",
                 text |-> trim(Slice(communication, 207, 215))]
          [] OTHER -> [field |-> "none"]

\* the payloads with a date that were handed to their decoder
DatedPayloads == {e \in 1..Len(handed) : PayloadDate(handed[e]).field # "none"}

\* the header lines of the statement
HeaderLines == {k \in 1..Len(lines) : At(lines[k], 0) = "0"}

\* C12: the date decoder selects its format from the length of its input only
\* (6, 8 or 10 characters), and for an input of any other length, the empty
\* string of a blank or truncated field included, it throws 'Unknown date
\* format' and the whole parse aborts. For the date of a header (the
\* characters of the columns [5,11), fewer when the line is cut) and for the
\* dates of the payloads of the structured communications (the trimmed
\* field): a text of 6, 8 or 10 characters is decoded to the Date of the
\* format of that length and nothing is thrown; with a text of any other
\* length the record is never decoded and parse ends by throwing.
C12_DateFormatByLengthElseThrows ==
    /\ \A k \in HeaderLines :
          LET text == Slice(lines[k], 5, 11)
          IN  IF Len(text) \in DateLengths
              THEN /\ ~(DecodeThrew /\ i = k - 1)
                   /\ (k \in 1..Decoded /\ k = LastLine("0"))
                          => result.header.date = DateInFormat(text)
              ELSE /\ k \notin 1..Decoded
                   /\ (DecodeThrew /\ i = k - 1) => thrown = "Unknown date format"
    /\ \A e \in DatedPayloads :
          LET dated == PayloadDate(handed[e])
          IN  IF Len(dated.text) \in DateLengths
              THEN /\ ~IsErr(handed[e].outcome)
                   /\ handed[e].outcome.value[2][dated.field] = DateInFormat(dated.text)
              ELSE /\ handed[e].outcome = Err("Unknown date format")
                   /\ pc = "thrown"
                   /\ thrown = "Unknown date format"

\* C12, the case: parse has thrown 'Unknown date format' at the payload of
\* type 010 of a chain of three information records, whose date field of 8
\* columns is blank: the decoder was given the empty string
C12_Witness ==
    /\ pc = "thrown"
    /\ thrown = "Unknown date format"
    /\ handed # <<>>
    /\ handed[Len(handed)].pass = "information"
    /\ Len(handed[Len(handed)].consumed) = 2
    /\ PayloadDate(handed[Len(handed)]).field = "purchase_sale_date"
    /\ PayloadDate(handed[Len(handed)]).text = <<>>

\* the two digits of the year of a text DDMMYY or DDMMYYHHMM
TwoDigitYear(text) == DecimalValue(Slice(text, 4, 6))

\* the year that the century of the clock gives to the two digits
ClockCenturyYear(text) == (fullYear \div 100) * 100 + TwoDigitYear(text)

\* C13: for both date formats with a 2-digit year (DDMMYY of 6 characters and
\* DDMMYYHHMM of 10 characters), the decoded year equals currentCentury * 100
\* + YY, where currentCentury is the integer part of the year of the clock
\* divided by 100: whatever year the Date that was built can answer, it is that
\* year.
C13_TwoDigitYearsUseClockCentury ==
    /\ \A k \in HeaderLines :
          (k \in 1..Decoded /\ k = LastLine("0") /\ AllDigits(Slice(lines[k], 5, 11)))
              => constructedYears(result.header.date)
                     = {ClockCenturyYear(Slice(lines[k], 5, 11))}
    /\ \A e \in DatedPayloads :
          LET dated == PayloadDate(handed[e])
          IN  (Len(dated.text) \in {6, 10} /\ AllDigits(dated.text)
                   /\ ~IsErr(handed[e].outcome))
                  => constructedYears(handed[e].outcome.value[2][dated.field])
                         = {ClockCenturyYear(dated.text)}

\* the part of C13 that holds: the year of a date of 6 characters
SixCharacterYearsUseClockCentury ==
    \A e \in DatedPayloads :
        LET dated == PayloadDate(handed[e])
        IN  (Len(dated.text) = 6 /\ AllDigits(dated.text) /\ ~IsErr(handed[e].outcome))
                => constructedYears(handed[e].outcome.value[2][dated.field])
                       = {ClockCenturyYear(dated.text)}

\* ------------------------------------------------------------------------
\* C14: the balance of the old balance
\* ------------------------------------------------------------------------

\* the sign and the amount of the old balance of the test 'should parse the old
\* balance (#1)': the sign 0 and 000000004004100
TestedOldBalance == <<"0", "0", "0", "0", "0", "0", "0", "0", "0", "4", "0", "0", "4", "1", "0", "0">>

\* C14: the balance of the old balance is the integer value of the amount
\* field at [43,58) multiplied by the factor of the sign at [42,43), +1 for 0
\* and -1 for 1; for the sign 0 and the amount 000000004004100 it is 4004100.
C14_OldBalanceIsSignedInteger ==
    DecodedLines("1") # {} =>
        LET line == lines[LastLine("1")]
        IN  /\ result.balance.old.balance = Magnitude(line, 43, 58) * SignOf(line[43])
            /\ Slice(line, 42, 58) = TestedOldBalance
                   => result.balance.old.balance = 4004100

\* C14, the case: parse has returned a statement whose last old balance has
\* the sign 0 and the amount 000000004004100, after an old balance with the
\* sign 1, and the balance is 4004100
C14_Witness ==
    /\ pc = "done"
    /\ Len(lines) = 2
    /\ At(lines[1], 0) = "1"
    /\ At(lines[1], 42) = SignDebit
    /\ At(lines[2], 0) = "1"
    /\ Slice(lines[2], 42, 58) = TestedOldBalance
    /\ result.balance.old.balance = 4004100

\* ------------------------------------------------------------------------
\* C15: the columns of the header
\* ------------------------------------------------------------------------

\* the header decoded from line k holds, field by field, the characters of the
\* line at the given columns [first, last): the date through the date decoder,
\* the name, the BIC and the two references trimmed, the version as a number
HeaderReadAt(k, columns) ==
    LET field(name) == Slice(lines[k], columns[name][1], columns[name][2])
    IN  /\ result.header.record_identification = field("record_identification")
        /\ result.header.date = DateInFormat(field("date"))
        /\ result.header.bank_identification_number = field("bank_identification_number")
        /\ result.header.file_reference = field("file_reference")
        /\ result.header.account.name = trim(field("name"))
        /\ result.header.account.bic = trim(field("bic"))
        /\ result.header.account.identification_number = field("identification_number")
        /\ result.header.external_application_code = field("external_application_code")
        /\ result.header.transaction_reference = trim(field("transaction_reference"))
        /\ result.header.related_reference = trim(field("related_reference"))
        /\ result.header.version = Number(field("version"))

\* every header that was decoded was read at the columns
HeadersReadAt(columns) ==
    \A k \in HeaderLines :
        (k \in 1..Decoded /\ k = LastLine("0")) => HeaderReadAt(k, columns)

\* C15 as stated: the header decoder reads record id [0,1), date [5,11), bank id
\* [11,14), file reference [21,28), account name [28,54), BIC [54,65),
\* identification number [65,76), external application code [82,87),
\* transaction reference [87,103), related reference [103,119), version
\* [126,127).
C15_HeaderColumns ==
    HeadersReadAt([record_identification |-> <<0, 1>>,
                   date |-> <<5, 11>>,
                   bank_identification_number |-> <<11, 14>>,
                   file_reference |-> <<21, 28>>,
                   name |-> <<28, 54>>,
                   bic |-> <<54, 65>>,
                   identification_number |-> <<65, 76>>,
                   external_application_code |-> <<82, 87>>,
                   transaction_reference |-> <<87, 103>>,
                   related_reference |-> <<103, 119>>,
                   version |-> <<126, 127>>])

\* C15, amended: the header decoder reads record id [0,1), date [5,11), bank id
\* [11,14), file reference [24,34), account name [34,60), BIC [60,71),
\* identification number [71,82), external application code [83,88),
\* transaction reference [88,104), related reference [104,120), version
\* [127,128).
C15_HeaderColumnsOfTheCode ==
    HeadersReadAt([record_identification |-> <<0, 1>>,
                   date |-> <<5, 11>>,
                   bank_identification_number |-> <<11, 14>>,
                   file_reference |-> <<24, 34>>,
                   name |-> <<34, 60>>,
                   bic |-> <<60, 71>>,
                   identification_number |-> <<71, 82>>,
                   external_application_code |-> <<83, 88>>,
                   transaction_reference |-> <<88, 104>>,
                   related_reference |-> <<104, 120>>,
                   version |-> <<127, 128>>])

\* C15, the case: parse has returned the statement that begins with the header
\* of the test, whose file reference is 0938409934 and whose version is 2
C15_Witness ==
    /\ pc = "done"
    /\ lines[1] = TestedHeader
    /\ result.header.file_reference = <<"0", "9", "3", "8", "4", "0", "9", "9", "3", "4">>
    /\ result.header.account.name = <<"C", "O", "D", "E", "L", "I", "C", "I", "O", "U", "S">>
    /\ result.header.related_reference = <<"8", "3", "4", "0", "8", "0">>
    /\ result.header.version = 2

\* ------------------------------------------------------------------------
\* C16, C17: the information records of several movements
\* ------------------------------------------------------------------------

\* the movements of the list that have the keys of the information record n
MovementsOf(n, movements) == {m \in Elements(movements) : SameKeys(heap[m], heap[n])}

\* the number of times that n occurs in the information list of the movement m
Occurrences(m, n) ==
    IF "information" \in DOMAIN heap[m]
    THEN Cardinality({p \in DOMAIN heap[m].information : heap[m].information[p] = n})
    ELSE 0

\* C16: if several movements share the (sequence, reference_number) of one
\* information record, the linking pass appends that information to the
\* information list of every one of those movements, not only the first: once
\* the pass has treated the information, it occurs once in the list of each of
\* the movements, and so it does when parse has returned.
C16_AppendedToEveryMatchingMovement ==
    /\ pc = "moveInformation" =>
           \A k \in 1..i :
               \A m \in MovementsOf(result.information[k], result.movements) :
                   Occurrences(m, result.information[k]) = 1
    /\ pc = "done" =>
           \A n \in Elements(merged.information) :
               \A m \in MovementsOf(n, merged.movements) : Occurrences(m, n) = 1

\* C16, the case: the pass has treated an information record whose keys two
\* movements have, and the record is in the list of the second of them too
C16_Witness ==
    /\ pc = "moveInformation"
    /\ i = 1
    /\ Len(result.movements) = 2
    /\ MovementsOf(result.information[1], result.movements) = Elements(result.movements)
    /\ heap[result.movements[2]].information = <<result.information[1]>>

\* ------------------------------------------------------------------------
\* Statements of movements and their information
\* ------------------------------------------------------------------------

LinkLines ==
    {\* 2.1 of the sequence 0001 and the reference REF A
     Movement21Line(<<"0", "0", "0", "1">>, <<"R", "E", "F", " ", "A">>, SignCredit, <<"0", "0", "0", "0", "0", "0", "0", "0", "0", "1", "2", "5", "0", "0", "0">>, <<"2", "4", "1", "2", "1", "4">>, <<"0", "0", "1", "5", "0", "0", "0", "0">>, "0", <<"A", "B">>, <<"2", "4", "1", "2", "1", "4">>, "0"),
     \* 3.1 of the sequence 0001 and the reference REF A
     Information31Line(<<"0", "0", "0", "1">>, <<"R", "E", "F", " ", "A">>, "0", <<"G", "H">>, "0"),
     \* 3.1 of the sequence 0003 and the reference REF C, which no movement has
     Information31Line(<<"0", "0", "0", "3">>, <<"R", "E", "F", " ", "C">>, "0", <<"I", "J">>, "0"),
     \* 4
     FreeCommunicationLine(<<"0", "0", "0", "1">>, <<"M", "N">>, "0")}

\* statements of up to two movements and two information records
LinkInit == Called(Statements(LinkLines, MaxLines + 1), Years)

SpecLinks == LinkInit /\ [][Next]_vars

\* the information records left by the merge that have the keys of no movement
Unmatched ==
    SelectSeq(merged.information,
              LAMBDA n : MovementsOf(n, merged.movements) = {})

\* C17: after the linking pass, the top-level information list contains
\* exactly the information records whose (sequence, reference_number) matched
\* no movement, in their original order: an information record that matched
\* no movement is never removed, also when another information record matched
\* two or more movements.
C17_TopLevelKeepsUnmatchedInformation ==
    pc = "done" => result.information = Unmatched

\* the part of C17 that holds: when no information record has the keys of two
\* or more movements
TopLevelKeepsUnmatchedOfSingleMatches ==
    (/\ pc = "done"
     /\ \A n \in Elements(merged.information) :
            Cardinality(MovementsOf(n, merged.movements)) <= 1)
        => result.information = Unmatched

\* ------------------------------------------------------------------------
\* Statements of mini-codes
\* ------------------------------------------------------------------------

\* a payload of type 111 with the card scheme and the transaction type: the
\* card scheme, the POS number, the period, the sequence number and the date
\* of the first and of the last transaction, the transaction type
Communication111(card_scheme, transaction_type) ==
    <<"1", "1", "1">> \o card_scheme \o <<"0", "0", "0", "0", "0", "1", "0", "0", "1", "0", "0", "0", "0", "0", "1", "2", "4", "1", "2", "1", "4", "0", "0", "0", "0", "0", "2", "2", "4", "1", "2", "1", "4">> \o transaction_type

\* a payload of type 011 of 268 characters with the securities code type at
\* [44,46), the type of the amount at [130,131) and the date at [176,182)
Communication011(securities_code_type, type) ==
    Field(<<"0", "1", "1">>, 44) \o securities_code_type \o Blank(84) \o type
        \o Blank(45) \o <<"2", "4", "1", "2", "1", "4">> \o Blank(86)

\* a movement 2.1 with a payload of type 111, the chain 3.1, 3.2, 3.3 of its
\* information with a payload of type 011, a free communication; the
\* mini-codes are drawn from values that their tables have and values that
\* they do not have
MiniCodeStatements ==
    {join(<<DateMovement(Communication111(card_scheme, transaction_type)),
            Information31Line(<<"0", "0", "0", "1">>, <<"R", "E", "F", " ", "A">>, "1", Slice(Communication011(securities_code_type, type), 0, 73), "1"),
            Information32Line(<<"0", "0", "0", "1">>, Slice(Communication011(securities_code_type, type), 73, 178), "1"),
            Information33Line(<<"0", "0", "0", "1">>, Slice(Communication011(securities_code_type, type), 178, 268), "0"),
            FreeCommunicationLine(<<"0", "0", "0", "1">>, <<"M", "N">>, "0")>>, <<"\n">>) :
        card_scheme \in {<<"1">>, <<"4">>, <<" ">>},
        transaction_type \in {<<"0">>, <<"3">>},
        securities_code_type \in {<<"0", "1">>, <<"9", "9">>},
        type \in {<<"1">>, <<"0">>, <<"2">>, <<" ">>}}

MiniCodeInit == Called(MiniCodeStatements, Years)

SpecMiniCodes == MiniCodeInit /\ [][Next]_vars

\* ------------------------------------------------------------------------
\* C18: the mini-codes of the structured communications
\* ------------------------------------------------------------------------

\* the payload handed to its decoder is of the given pass and type
PayloadOf(entry, pass, structuredType) ==
    /\ entry.pass = pass
    /\ entry.type = "structured"
    /\ Slice(entry.communication, 0, 3) = structuredType

\* the getters of the payload whose code is not a key of their table answer
\* the sentinel
UnknownGettersYieldSentinel(payload, getters) ==
    \A k \in DOMAIN getters :
        LET g == getters[k]
            code == IF g.numeric THEN NumberKey(payload[g.of]) ELSE payload[g.of]
        IN  code \notin Keys(g.lookup) => readGetter(payload, g) = Ok("<Unknown>")

\* the mini-codes that are resolved when they are read (the card scheme and
\* the transaction type of a payload of type 111, the securities code type of
\* a payload of type 011) resolve to the sentinel when their table does not
\* have them
ReadMiniCodesYieldSentinel ==
    \A e \in 1..Len(handed) :
        /\ PayloadOf(handed[e], "movements", <<"1", "1", "1">>) =>
               /\ ~IsErr(handed[e].outcome)
               /\ UnknownGettersYieldSentinel(handed[e].outcome.value[2], movementGetters[111])
        /\ (PayloadOf(handed[e], "information", <<"0", "1", "1">>) /\ ~IsErr(handed[e].outcome)) =>
               UnknownGettersYieldSentinel(handed[e].outcome.value[2],
                                           detailGetters[<<"0", "1", "1">>])

\* the type of the amount of a payload of type 011, at [130,131), resolves to
\* the sentinel when it is neither 1 nor 0, and nothing is thrown
DecodedMiniCodesYieldSentinel ==
    \A e \in 1..Len(handed) :
        (/\ PayloadOf(handed[e], "information", <<"0", "1", "1">>)
         /\ trim(Slice(handed[e].communication, 130, 131)) \notin {<<"1">>, <<"0">>}) =>
            /\ ~IsErr(handed[e].outcome)
            /\ handed[e].outcome.value[2].type = "<Unknown>"

\* C18: in every structured-communication variant (movement side and
\* information side), an embedded mini-code (card scheme, transaction type,
\* securities code type, type of the coupon amount, ...) whose value is absent
\* from its code table resolves to the unknown sentinel and never raises an
\* error.
C18_UnknownMiniCodesYieldSentinel ==
    /\ ReadMiniCodesYieldSentinel
    /\ DecodedMiniCodesYieldSentinel

\* ------------------------------------------------------------------------
\* C19: the account structures that parseAccount has no case for
\* ------------------------------------------------------------------------

\* the account structure that line k is decoded with: the second character of
\* an old balance line, as a number
StructureOf(k) == NumberOfChar(At(lines[k], 1))

\* the old balance lines whose structure is outside {0, 1, 2, 3}
UnknownStructureLines ==
    {k \in 1..Len(lines) : At(lines[k], 0) = "1" /\ StructureOf(k) \notin 0..3}

\* the new balance lines that follow, as the last old balance line before
\* them, an old balance line whose structure is outside {0, 1, 2, 3}
UnknownCarriedStructureLines ==
    {k \in 1..Len(lines) :
        /\ At(lines[k], 0) = "8"
        /\ OldBalancesBefore(k) # {}
        /\ MaxOf(OldBalancesBefore(k)) \in UnknownStructureLines}

\* C19: decoding an account with a structure discriminant outside {0,1,2,3}
\* (in an old balance line, or in a new balance line through the carried
\* discriminant) surfaces a decode error; it never yields a default or empty
\* account: such a line is never decoded, parse throws at it.
C19_UnknownStructureSurfacesError ==
    \A k \in UnknownStructureLines \cup UnknownCarriedStructureLines :
        k \notin 1..Decoded

\* what the code does with such a line: the old balance is decoded to an
\* account with a name and a description and neither type nor number, the new
\* balance to the empty account, and nothing is thrown
UnknownStructureYieldsEmptyAccount ==
    /\ \A k \in UnknownStructureLines \cup UnknownCarriedStructureLines :
           ~(DecodeThrew /\ i = k - 1)
    /\ (DecodedLines("1") # {} /\ LastLine("1") \in UnknownStructureLines)
           => DOMAIN result.balance.old.account = {"name", "description"}
    /\ (DecodedLines("8") # {} /\ LastLine("8") \in UnknownCarriedStructureLines)
           => DOMAIN result.balance.new.account = {}

\* ------------------------------------------------------------------------
\* Statements of several calls
\* ------------------------------------------------------------------------

\* the texts of the calls: an old balance of the structure 0 and a new balance;
\* a new balance alone; a header, a movement 2.1 continued by a record 2.3, its
\* information record 3.1 and a free communication; a line of no record type
CallTexts ==
    {join(<<OldBalanceLine("0", <<"0", "0", "1", "2", "8", "8", "7", "7", "3", "4", "1", "0", " ", "E", "U", "R", "0", "B", "E">>, SignCredit, <<"0", "0", "0", "0", "0", "0", "0", "0", "4", "0", "0", "4", "1", "0", "0">>, <<"2", "4", "1", "2", "1", "4">>),
            NewBalanceLine(<<"B", "E", "1", "9", "0", "0", "1", "2", "8", "8", "7", "7", "3", "4", "1", "0", " ", "E", "U", "R">>, SignDebit, <<"0", "0", "0", "0", "0", "0", "0", "0", "1", "7", "6", "7", "8", "2", "0">>, <<"1", "2", "0", "5", "1", "5">>)>>, <<"\n">>),
     NewBalanceLine(<<"B", "E", "1", "9", "0", "0", "1", "2", "8", "8", "7", "7", "3", "4", "1", "0", " ", "E", "U", "R">>, SignDebit, <<"0", "0", "0", "0", "0", "0", "0", "0", "1", "7", "6", "7", "8", "2", "0">>, <<"1", "2", "0", "5", "1", "5">>),
     join(<<HeaderLine(<<"2", "4", "1", "2", "1", "4">>, <<"A", "C", "M", "E">>),
            Movement21Line(<<"0", "0", "0", "1">>, <<"R", "E", "F", " ", "A">>, SignCredit, <<"0", "0", "0", "0", "0", "0", "0", "0", "0", "1", "2", "5", "0", "0", "0">>, <<"2", "4", "1", "2", "1", "4">>, <<"0", "0", "1", "5", "0", "0", "0", "0">>, "0", <<"A", "B">>, <<"2", "4", "1", "2", "1", "4">>, "1"),
            Movement23Line(<<"0", "0", "0", "1">>, <<"F", " ", "G">>, "0"),
            Information31Line(<<"0", "0", "0", "1">>, <<"R", "E", "F", " ", "A">>, "0", <<"G", "H">>, "0"),
            FreeCommunicationLine(<<"0", "0", "0", "1">>, <<"M", "N">>, "0")>>, <<"\n">>),
     Field(<<"5", " ", "N", "O", "T", " ", "A", " ", "R", "E", "C", "O", "R", "D">>, 128)}

CallsInit == Called(CallTexts, DateYears)

\* parse is called again, after the call before has returned or thrown, with
\* one of the texts and under one of the clock years: the module has no
\* variable that a call writes, every local variable is built anew
\* (index.ts 9-32)
ParseAgain ==
    /\ pc \in {"done", "thrown"}
    /\ Len(calls) + 1 < MaxCalls
    /\ calls' = Append(calls, returned)
    /\ \E text \in CallTexts : coda' = text /\ lines' = split(trim(text))
    /\ fullYear' \in DateYears
    /\ pc' = "lines"
    /\ i' = 0
    /\ state' = freshState(state)
    /\ result' = [header |-> EmptyObject,
                  balance |-> [old |-> EmptyObject, new |-> EmptyObject],
                  movements |-> <<>>,
                  information |-> <<>>,
                  free_communications |-> <<>>,
                  trailer |-> EmptyObject]
    /\ heap' = <<>>
    /\ drop' = <<>>
    /\ handed' = <<>>
    /\ merged' = <<>>
    /\ thrown' = <<>>

NextCalls ==
    \/ DecodeLine
    \/ MergeMovement
    \/ DropMovements
    \/ MergeInformation
    \/ DropInformation
    \/ MergeFreeCommunication
    \/ DropFreeCommunications
    \/ Cleanup
    \/ MoveInformation
    \/ ReturnResult
    \/ ParseAgain

SpecCalls == CallsInit /\ [][NextCalls]_vars

\* ------------------------------------------------------------------------
\* C20: the calls of parse are independent
\* ------------------------------------------------------------------------

\* the calls that have ended: those of the history and, when it has returned
\* or thrown, the call that is running
EndedCalls ==
    {calls[c] : c \in DOMAIN calls}
        \cup (IF pc \in {"done", "thrown"} THEN {returned} ELSE {})

\* C20: parse is deterministic and keeps no state between calls: two calls on
\* the same input text (under the same system year) return structurally
\* identical documents, or throw the same Error, whatever other documents
\* were parsed in between.
C20_CallsOnTheSameTextReturnTheSame ==
    \A first \in EndedCalls : \A second \in EndedCalls :
        (first.coda = second.coda /\ first.fullYear = second.fullYear)
            => /\ first.threw = second.threw
               /\ first.threw => first.thrown = second.thrown
               /\ first.result = second.result
               /\ first.heap = second.heap

\* C20, the case: a new balance alone was parsed, then a statement with an old
\* balance, and the third call has returned for the new balance alone again,
\* under the year of the first call: its account is the empty object, as in
\* the first call
C20_Witness ==
    /\ pc = "done"
    /\ Len(calls) = 2
    /\ calls[1].coda = coda
    /\ calls[1].fullYear = fullYear
    /\ calls[2].coda # coda
    /\ ~calls[2].threw
    /\ DOMAIN calls[2].result.balance.old # {}
    /\ Len(lines) = 1
    /\ At(lines[1], 0) = "8"
    /\ DOMAIN result.balance.new.account = {}
    /\ calls[1].result = result

\* ------------------------------------------------------------------------
\* C21: the chains of free communications
\* ------------------------------------------------------------------------

\* the numbers of the lines of the statement that are free communication
\* records 4, in the order of the statement
FreeLines == KindLines("free_communications")

\* the text fragment of a free communication line: the columns [32,112),
\* trimmed as its decoder trims them
FreeText(k) == trim(Slice(lines[k], 32, 112))

\* the place in FreeLines where the chain that begins at the place p ends: the
\* first record from p on whose link code is not 1, or the last record
FreeChainEnd(p) ==
    CHOOSE q \in p..Len(FreeLines) :
        /\ q = Len(FreeLines) \/ At(lines[FreeLines[q]], 127) # "1"
        /\ \A j \in p..(q - 1) : At(lines[FreeLines[j]], 127) = "1"

\* the text fragments of the free communication lines at the places p..q, one
\* after the other
FreeTexts(p, q) ==
    LET upTo[j \in (p - 1)..q] ==
            IF j = p - 1 THEN <<>> ELSE upTo[j - 1] \o FreeText(FreeLines[j])
    IN  upTo[q]

\* a text with both ends trimmed and every run of two or more white space
\* characters replaced by one space: between the first and the last character
\* that is not white space, a white space character that follows another is
\* left out, and one that is followed by another becomes a space
WhitespaceNormal(text) ==
    CHOOSE normal \in
        {LET black == {k \in 1..Len(s) : s[k] \notin WhiteSpace}
         IN  IF black = {} THEN <<>>
             ELSE LET first == MinOf(black)
                      last == MaxOf(black)
                      kept == SelectSeq([k \in 1..(last - first + 1) |-> first + k - 1],
                                        LAMBDA k : ~(s[k] \in WhiteSpace
                                                       /\ s[k - 1] \in WhiteSpace))
                  IN  [n \in 1..Len(kept) |->
                          IF s[kept[n]] \in WhiteSpace /\ s[kept[n] + 1] \in WhiteSpace
                          THEN " " ELSE s[kept[n]]] :
         s \in {text}} : TRUE

\* the chains of free communications that the pass has closed
FreeChains == {e \in 1..Len(handed) : handed[e].pass = "free_communications"}

\* C21: free communication records 4 are merged like the chains of movements,
\* but driven by link_code = '1' and with every record eligible as a root: a
\* record that no chain before it consumed is a root, it consumes the records
\* that follow it as long as the link code of the last record taken is 1, its
\* text is the text fragments of the root and of the consumed records one
\* after the other in the order of the statement, then whitespace-normalized,
\* and the consumed records are dropped from free_communications.
C21_FreeCommunicationChains ==
    /\ \A e \in FreeChains :
           \E p \in 1..Len(FreeLines) :
               /\ FreeLines[p] = handed[e].root
               /\ handed[e].consumed = SubSeq(FreeLines, p + 1, FreeChainEnd(p))
               /\ handed[e].communication = FreeTexts(p, FreeChainEnd(p))
               /\ heap[handed[e].root].text = WhitespaceNormal(FreeTexts(p, FreeChainEnd(p)))
    /\ pc \in {"cleanup", "moveInformation", "done"} =>
           /\ result.free_communications =
                  SelectSeq(FreeLines, LAMBDA k : k \in {handed[e].root : e \in FreeChains})
           /\ \A k \in Elements(FreeLines) :
                  \/ k \in {handed[e].root : e \in FreeChains}
                  \/ k \in UNION {Elements(handed[e].consumed) : e \in FreeChains}
           /\ \A e \in FreeChains :
                  Elements(handed[e].consumed) \cap Elements(result.free_communications) = {}

\* C21, the case: parse has returned one free communication for a chain of
\* three records, whose text had a run of white space that was collapsed
C21_Witness ==
    /\ pc = "done"
    /\ Len(FreeLines) = 3
    /\ Len(result.free_communications) = 1
    /\ \E e \in FreeChains :
           /\ handed[e].root = result.free_communications[1]
           /\ Len(handed[e].consumed) = 2
           /\ handed[e].communication # heap[handed[e].root].text
           /\ heap[handed[e].root].text = WhitespaceNormal(FreeTexts(1, 3))

\* ------------------------------------------------------------------------
\* C22: the unstructured communications
\* ------------------------------------------------------------------------

\* the chains of movements and of information records that were handed to
\* their decoder with the communication type 'unstructured'
UnstructuredChains ==
    {e \in 1..Len(handed) :
        /\ handed[e].pass \in {"movements", "information"}
        /\ handed[e].type = "unstructured"}

\* C22: for a movement or information chain whose communication_type is
\* 'unstructured', the decoder returns the accumulated buffer as it is and
\* throws nothing, and the final communication of the root is a plain string,
\* the accumulated buffer with every run of two or more white space characters
\* collapsed to one space and both ends trimmed.
C22_UnstructuredIsNormalizedString ==
    \A e \in UnstructuredChains :
        /\ handed[e].outcome = Ok(handed[e].communication)
        /\ IsString(heap[handed[e].root].communication)
        /\ heap[handed[e].root].communication = WhitespaceNormal(handed[e].communication)

\* C22, the case: parse has returned a movement whose unstructured chain of
\* three records had white space that the normalization removed
C22_Witness ==
    /\ pc = "done"
    /\ \E e \in UnstructuredChains :
           /\ handed[e].pass = "movements"
           /\ Len(handed[e].consumed) = 2
           /\ handed[e].root \in Elements(result.movements)
           /\ heap[handed[e].root].communication # handed[e].communication
           /\ Len(heap[handed[e].root].communication) > 0

\* ------------------------------------------------------------------------
\* C23: the records of article 2 or 3 that no root consumed
\* ------------------------------------------------------------------------

\* the lines of movement or information records of article 2 or 3 that no
\* chain of their pass consumed
Continuations(pass) ==
    {k \in Elements(Remaining(pass)) : At(lines[k], 1) \in {"2", "3"}}

\* the columns of a line of article 2 or 3 that hold its communication
ContinuationFragment(line) ==
    CASE startsWith(line, <<"2", "2">>) -> Slice(line, 10, 63)
      [] startsWith(line, <<"2", "3">>) -> Slice(line, 82, 115)
      [] startsWith(line, <<"3", "2">>) -> Slice(line, 10, 115)
      [] startsWith(line, <<"3", "3">>) -> Slice(line, 10, 100)

\* the record of line k is as C23 says: a plain string for its communication,
\* the columns of its line whitespace-normalized, no next_code and no
\* link_code, and no chain was begun at it
EmittedAlone(k) ==
    /\ IsString(heap[k].communication)
    /\ heap[k].communication = WhitespaceNormal(ContinuationFragment(lines[k]))
    /\ DOMAIN heap[k] \cap {"next_code", "link_code"} = {}
    /\ \A e \in 1..Len(handed) : handed[e].root # k

\* C23: a movement or information record of article code 2 or 3 that is not
\* consumed by a preceding root is an entry of its own of the list that its
\* merge pass leaves (movements, information): its communication is
\* whitespace-normalized and stays a plain string, it starts no chain even
\* when its own next_code is '1' (the record after it is an entry of its own
\* too), and its next_code and link_code are removed.
C23_UnconsumedContinuationIsOwnEntry ==
    pc \in {"moveInformation", "done"} =>
        /\ \A k \in Continuations("movements") :
               k \in Elements(result.movements) /\ EmittedAlone(k)
        /\ \A k \in Continuations("information") :
               k \in Elements(merged.information) /\ EmittedAlone(k)

\* C23, the case: parse has returned two movements for a record 2.2 whose
\* next code is 1 and the record 2.3 that follows it
C23_Witness ==
    /\ pc = "done"
    /\ Len(lines) = 2
    /\ startsWith(lines[1], <<"2", "2">>)
    /\ At(lines[1], 125) = "1"
    /\ startsWith(lines[2], <<"2", "3">>)
    /\ result.movements = <<1, 2>>
    /\ EmittedAlone(1)
    /\ EmittedAlone(2)
\* ------------------------------------------------------------------------
\* C24: the buffer that the decoder of a pass is handed
\* ------------------------------------------------------------------------

\* the chains of movements and of information records that were handed to
\* their decoder with the communication type 'structured'
StructuredChains ==
    {e \in 1..Len(handed) :
        /\ handed[e].pass \in {"movements", "information"}
        /\ handed[e].type = "structured"}

\* the columns of the communication of a movement or information line
LineFragment(line) ==
    CASE startsWith(line, <<"2", "1">>) -> Slice(line, 62, 115)
      [] startsWith(line, <<"3", "1">>) -> Slice(line, 40, 113)
      [] OTHER -> ContinuationFragment(line)

\* the columns of the root of the chain e and of the records it consumed, one
\* after the other, as the lines have them
RawBuffer(e) ==
    LET members == <<handed[e].root>> \o handed[e].consumed
        upTo[j \in 0..Len(members)] ==
            IF j = 0 THEN <<>>
            ELSE upTo[j - 1] \o LineFragment(lines[members[j]])
    IN  upTo[Len(members)]

\* the decoder of the pass of the chain e, on the buffer
DecodedBy(e, buffer) ==
    IF handed[e].pass = "movements"
    THEN parseCommunicationMovement(buffer, handed[e].type)
    ELSE parseCommunicationDetail(buffer, handed[e].type)

\* C24, as the specification has it: once a movement or information chain is
\* fully merged, its accumulated communication buffer is whitespace-normalized
\* and, for a chain flagged structured, it is this normalized buffer that is
\* handed to the structured-communication decoder.
C24_NormalizedBufferIsHanded ==
    \A e \in StructuredChains :
        handed[e].communication = WhitespaceNormal(RawBuffer(e))

\* C24, amended: once a movement or information chain is fully merged, its
\* accumulated communication buffer is handed to the decoder of the pass as
\* it was accumulated, white space and all, whatever the communication type;
\* only afterwards, and only when the decoder returned a string, is the result
\* whitespace-normalized and made the communication of the root; a payload
\* that the decoder built from a structured buffer is made the communication
\* of the root as it is.
C24_RawBufferIsHandedThenNormalized ==
    \A e \in 1..Len(handed) :
        handed[e].pass \in {"movements", "information"} =>
            /\ handed[e].communication = RawBuffer(e)
            /\ handed[e].outcome = DecodedBy(e, RawBuffer(e))
            /\ ~IsErr(handed[e].outcome) =>
                   heap[handed[e].root].communication =
                       IF IsString(handed[e].outcome.value)
                       THEN WhitespaceNormal(RawBuffer(e))
                       ELSE handed[e].outcome.value

\* C24, the case: parse has returned a movement whose structured chain of
\* three records was handed to the decoder with white space that a
\* normalization would have removed, and whose communication is the payload
C24_Witness ==
    /\ pc = "done"
    /\ \E e \in StructuredChains :
           /\ handed[e].pass = "movements"
           /\ Len(handed[e].consumed) = 2
           /\ handed[e].communication = RawBuffer(e)
           /\ RawBuffer(e) # WhitespaceNormal(RawBuffer(e))
           /\ ~IsErr(handed[e].outcome)
           /\ ~IsString(heap[handed[e].root].communication)
           /\ heap[handed[e].root].communication = handed[e].outcome.value

\* ------------------------------------------------------------------------
\* C25: the passes end
\* ------------------------------------------------------------------------

\* records of every pass with the flag '1', which asks for a next record
\* whether there is one or not, and two records with the flag '0'
TerminationLines ==
    {Movement21Line(<<"0", "0", "0", "1">>, <<"R", "E", "F", " ", "A">>, "0", <<"0", "0", "0", "0", "0", "0", "0", "0", "0", "0", "1", "2", "5", "0", "0">>, <<"2", "4", "1", "2", "1", "4">>, <<"0", "0", "1", "5", "0", "0", "0", "0">>, "0", <<"A", "B", " ", " ", " ", "C">>, <<"2", "4", "1", "2", "1", "4">>, "1"),
     Movement21Line(<<"0", "0", "0", "2">>, <<"R", "E", "F", " ", "B">>, "1", <<"0", "0", "0", "0", "0", "0", "0", "0", "0", "0", "1", "2", "5", "0", "0">>, <<"2", "4", "1", "2", "1", "4">>, <<"0", "0", "1", "5", "0", "0", "0", "0">>, "0", <<" ", "X", " ", " ", "Y", " ">>, <<"2", "4", "1", "2", "1", "4">>, "0"),
     Movement22Line(<<"0", "0", "0", "1">>, <<"0", "1", "2", "6", " ", "D", "E">>, "1"),
     Movement23Line(<<"0", "0", "0", "1">>, <<"F", " ", "G">>, "1"),
     Information31Line(<<"0", "0", "0", "1">>, <<"R", "E", "F", " ", "A">>, "0", <<"G", "H">>, "1"),
     Information32Line(<<"0", "0", "0", "1">>, <<"I", "J">>, "1"),
     FreeCommunicationLine(<<"0", "0", "0", "1">>, <<"K", " ", " ", "L">>, "1"),
     FreeCommunicationLine(<<"0", "0", "0", "1">>, <<"M", "N">>, "0")}

TerminationInit == Called(Statements(TerminationLines, MaxLines), Years)

\* parse is one sequential function: a step that can be taken is taken
SpecTermination == TerminationInit /\ [][Next]_vars /\ WF_vars(Next)

\* the three merge passes and the linking pass
Passes == {"mergeMovements", "mergeInformation", "mergeFreeCommunications",
           "moveInformation"}

\* the list that a pass goes over
PassList(pass) ==
    CASE pass = "mergeMovements" -> result.movements
      [] pass = "mergeFreeCommunications" -> result.free_communications
      [] OTHER -> result.information

\* C25: each of the three merge passes and the linking pass terminates, for
\* every sequence of decoded records and every assignment of the next_code and
\* link_code flags, every flag equal to '1' included: a pass that was begun is
\* left, and each iteration of its outer loop moves the index forward, by one
\* for each record it took, and never past the end of the list by more than
\* the one step of a chain that was cut.
C25_PassesTerminate ==
    /\ \A pass \in Passes : (pc = pass) ~> (pc # pass)
    /\ <>(pc \in {"done", "thrown"})
    /\ [][(pc \in Passes /\ pc' = pc) =>
              /\ i < Len(PassList(pc))
              /\ i' > i
              /\ i' <= Len(PassList(pc)) + 1
              /\ PassList(pc)' = PassList(pc)]_vars

\* C25, the case: parse has returned from a statement of three records whose
\* flags are all '1': the chain of the movements and that of the free
\* communications were each left by break, at the end of their list
C25_Witness ==
    /\ pc = "done"
    /\ Len(lines) = 3
    /\ \A k \in 1..3 : At(lines[k], 0) \in {"2", "3", "4"}
    /\ \A k \in 1..3 : At(lines[k], IF At(lines[k], 0) = "4" THEN 127 ELSE 125) = "1"
    /\ \E e \in 1..Len(handed) :
           /\ handed[e].pass = "movements"
           /\ handed[e].broke
           /\ Len(handed[e].consumed) = 1
    /\ \E e \in 1..Len(handed) :
           /\ handed[e].pass = "free_communications"
           /\ handed[e].broke

\* ------------------------------------------------------------------------
\* C26: the records that a chain consumes
\* ------------------------------------------------------------------------

\* the lines of the movement or information records of article 1
Roots(pass) == {k \in Elements(KindLines(pass)) : At(lines[k], 1) = "1"}

\* C26: in the movement and information merge passes only records of article 2
\* or 3 are consumed as continuations: a record of article 1 that follows a
\* root whose next_code is '1' is not merged into that root, and is a root of
\* its own in the list the pass leaves.
C26_OnlyContinuationsAreConsumed ==
    /\ \A e \in 1..Len(handed) :
           handed[e].pass \in {"movements", "information"} =>
               \A k \in Elements(handed[e].consumed) : At(lines[k], 1) \in {"2", "3"}
    /\ pc \in {"moveInformation", "done"} =>
           /\ Roots("movements") \subseteq Elements(result.movements)
           /\ Roots("information") \subseteq Elements(merged.information)

\* ------------------------------------------------------------------------
\* C27: the fields of a merged movement
\* ------------------------------------------------------------------------

\* the record that the first loop decoded from the line k of a movement
DecodedMovement(k) == decodeRecord(lines[k], Null).outcome.value

\* the fields of the record 2.1 that C27 has kept by the merge
KeptFields ==
    {"article_code", "sequence", "detail_sequence", "sequence_number",
     "reference_number", "amount", "value_date", "entry_date", "transaction_code",
     "communication_type"}

\* the chains of the movements whose root took one continuation or more, each
\* of article 2 or 3, and whose communication was decoded
ContinuedMovements ==
    {e \in 1..Len(handed) :
        /\ handed[e].pass = "movements"
        /\ handed[e].consumed # <<>>
        /\ \A k \in Elements(handed[e].consumed) : At(lines[k], 1) \in {"2", "3"}
        /\ ~IsErr(handed[e].outcome)}

\* C27: merging continuation records into an article-1 movement changes only
\* its communication and adds the fields that the continuation defines and the
\* root lacks; every other field decoded from the article-1 line
\* (article_code, sequence, detail_sequence, sequence_number,
\* reference_number, amount, value_date, entry_date, transaction_code,
\* communication_type) keeps its article-1 value.
C27_MergeKeepsArticleOneFields ==
    \A e \in ContinuedMovements :
        \A field \in KeptFields :
            /\ field \in DOMAIN heap[handed[e].root]
            /\ heap[handed[e].root][field] = DecodedMovement(handed[e].root)[field]

\* what Object.assign does instead: a field other than the communication has
\* the value of the last record of the chain that defines it
MergeTakesLastDefinition ==
    \A e \in ContinuedMovements :
        LET members == <<handed[e].root>> \o handed[e].consumed
            defining(field) == {j \in 1..Len(members) : field \in DOMAIN DecodedMovement(members[j])}
            last(field) == CHOOSE j \in defining(field) : \A n \in defining(field) : n <= j
        IN  \A field \in DOMAIN heap[handed[e].root] \ {"communication", "information"} :
                /\ defining(field) # {}
                /\ heap[handed[e].root][field] = DecodedMovement(members[last(field)])[field]

\* ------------------------------------------------------------------------
\* Statements of malformed lines
\* ------------------------------------------------------------------------

\* the line, its second character replaced
WithArticle(line, article) == <<line[1], article>> \o SubSeq(line, 3, Len(line))

\* an empty line; a line of blanks; an old balance, a new balance and a
\* movement 2.1 whose sign is '2'; a line of type 2 and a line of type 3 whose
\* article is 4 and 0; and a movement 2.2, an information 3.1 and a free
\* communication as they should be
MalformedLines ==
    {<<>>,
     <<" ", " ">>,
     OldBalanceLine("0", <<"0", "0", "1", "2", "8", "8", "7", "7", "3", "4", "1", "0", " ", "E", "U", "R", "0", "B", "E">>, "2", <<"0", "0", "0", "0", "0", "0", "0", "0", "4", "0", "0", "4", "1", "0", "0">>, <<"2", "4", "1", "2", "1", "4">>),
     NewBalanceLine(<<"B", "E", "1", "9", "0", "0", "1", "2", "8", "8", "7", "7", "3", "4", "1", "0", " ", "E", "U", "R">>, "2", <<"0", "0", "0", "0", "0", "0", "0", "0", "1", "7", "6", "7", "8", "2", "0">>, <<"2", "4", "1", "2", "1", "4">>),
     Movement21Line(<<"0", "0", "0", "1">>, <<"R", "E", "F", " ", "A">>, "2", <<"0", "0", "0", "0", "0", "0", "0", "0", "0", "0", "1", "2", "5", "0", "0">>, <<"2", "4", "1", "2", "1", "4">>, <<"0", "0", "1", "5", "0", "0", "0", "0">>, "0", <<"A", "B", " ", " ", " ", "C">>, <<"2", "4", "1", "2", "1", "4">>, "1"),
     WithArticle(Movement22Line(<<"0", "0", "0", "1">>, <<"N", "O">>, "1"), "4"),
     WithArticle(Information32Line(<<"0", "0", "0", "1">>, <<"N", "O">>, "1"), "0"),
     Movement22Line(<<"0", "0", "0", "1">>, <<"0", "1", "2", "6", " ", "D", "E">>, "0"),
     Information31Line(<<"0", "0", "0", "1">>, <<"R", "E", "F", " ", "A">>, "0", <<"G", "H">>, "0"),
     FreeCommunicationLine(<<"0", "0", "0", "1">>, <<"M", "N">>, "0")}

MalformedInit == Called(Statements(MalformedLines, MaxLines), Years)

SpecMalformed == MalformedInit /\ [][Next]_vars

\* ------------------------------------------------------------------------
\* C28: the signs that are neither '0' nor '1'
\* ------------------------------------------------------------------------

\* the column of the sign of the amount of a line, counted from 0; -1 for a
\* line that has no signed amount
SignColumn(line) ==
    CASE At(line, 0) = "1" -> 42
      [] At(line, 0) = "8" -> 41
      [] startsWith(line, <<"2", "1">>) -> 31
      [] OTHER -> -1

\* the decoded lines that have a signed amount whose sign is of the given set
SignedLines(types) ==
    {k \in 1..Decoded :
        /\ SignColumn(lines[k]) >= 0
        /\ At(lines[k], 0) \in types
        /\ At(lines[k], SignColumn(lines[k])) \notin {SignCredit, SignDebit}}

\* C28: a sign character outside {'0','1'} is rejected in the same way in
\* every signed-amount field: in the old balance (column 42), the new balance
\* (column 41) and the movement 2.1 amount (column 31) it aborts the parse and
\* never yields an amount, so no line with such a sign is ever decoded.
C28_BadSignAbortsEverywhere == SignedLines({"1", "2", "8"}) = {}

\* what the code does: the sign of a balance is looked up by match, which
\* throws for another key, and that of a movement is compared with '0' alone
BadSignAbortsInBalances ==
    /\ SignedLines({"1", "8"}) = {}
    /\ \A k \in SignedLines({"2"}) :
           k \in DOMAIN heap =>
               heap[k].amount = Quotient(-Number(Slice(lines[k], 32, 47)), 1000)
    /\ (DecodeThrew /\ i < Len(lines) /\ SignColumn(lines[i + 1]) \in {41, 42}
            /\ At(lines[i + 1], SignColumn(lines[i + 1])) \notin {SignCredit, SignDebit}) =>
           thrown # "Unknown record type"

\* ------------------------------------------------------------------------
\* C29: the lines of type 2 or 3 of another article
\* ------------------------------------------------------------------------

\* the lines of type 2 or 3 whose article code is not 1, 2 or 3
OtherArticles ==
    {k \in 1..Len(lines) :
        /\ At(lines[k], 0) \in {"2", "3"}
        /\ At(lines[k], 1) \notin {"1", "2", "3"}}

\* the lines that the first loop has decoded into a record of a list
PushedLines ==
    {k \in 1..Decoded :
        \/ At(lines[k], 0) = "4"
        \/ At(lines[k], 0) \in {"2", "3"} /\ At(lines[k], 1) \in {"1", "2", "3"}}

\* C29: a line of record type 2 or 3 whose article code (its second character)
\* is not 1, 2 or 3 is skipped without error: parse does not abort at it, the
\* line adds no entry to movements or information (the records are those of
\* the other lines), and it is neither the root nor a consumed record of any
\* chain.
C29_OtherArticleIsSkipped ==
    /\ \A k \in OtherArticles :
           /\ ~(DecodeThrew /\ i + 1 = k)
           /\ k \notin DOMAIN heap
           /\ k \notin Elements(result.movements) \cup Elements(result.information)
                           \cup Elements(result.free_communications)
           /\ \A e \in 1..Len(handed) :
                  handed[e].root # k /\ k \notin Elements(handed[e].consumed)
    /\ DOMAIN heap = PushedLines

\* C29, the case: parse has returned from a statement of a movement 2.1 that
\* is continued, a line of type 2 of the article 4 and a movement 2.2: the one
\* movement is the chain of the first and the third line
C29_Witness ==
    /\ pc = "done"
    /\ Len(lines) = 3
    /\ startsWith(lines[1], <<"2", "1">>)
    /\ startsWith(lines[2], <<"2", "4">>)
    /\ startsWith(lines[3], <<"2", "2">>)
    /\ OtherArticles = {2}
    /\ result.movements = <<1>>
    /\ \E e \in 1..Len(handed) : handed[e].root = 1 /\ handed[e].consumed = <<3>>

\* ------------------------------------------------------------------------
\* C30: the empty lines
\* ------------------------------------------------------------------------

\* the places of a text where a line ends and the next is empty
EmptyLineBreaks(text) ==
    {k \in 1..(Len(text) - 1) : text[k] = "\n" /\ text[k + 1] = "\n"}

\* the text is empty, or it has an empty line between two of its records
HasEmptyLine(text) == text = <<>> \/ EmptyLineBreaks(text) # {}

\* the number of the first empty line of such a text, counted from 1
FirstEmptyLine(text) ==
    IF text = <<>> THEN 1
    ELSE 1 + Cardinality({k \in 1..MinOf(EmptyLineBreaks(text)) : text[k] = "\n"})

\* C30: parse of an empty or whitespace-only text, and parse of a text that
\* has an empty line between two records, aborts with the unknown-record-type
\* error: it never leaves the first loop but by an exception, it never decodes
\* past the first empty line of the text without the white space of its ends,
\* the exception thrown at that line is 'Unknown record type', and so it
\* neither returns an empty document nor skips the empty line.
C30_EmptyLineAborts ==
    \A text \in {trim(coda)} :
        HasEmptyLine(text) =>
            \A empty \in {FirstEmptyLine(text)} :
                /\ pc \in {"lines", "thrown"}
                /\ i < empty
                /\ (pc = "thrown" /\ i + 1 = empty) => thrown = "Unknown record type"

\* C30, the case: parse of a text of a free communication, an empty line and a
\* free communication has thrown 'Unknown record type' at the second line
C30_Witness ==
    /\ pc = "thrown"
    /\ thrown = "Unknown record type"
    /\ i = 1
    /\ result.free_communications = <<1>>
    /\ \E text \in {trim(coda)} :
           /\ Len(text) > 0
           /\ HasEmptyLine(text)
           /\ FirstEmptyLine(text) = 2
           /\ At(text, 0) = "4"
           /\ At(text, Len(text) - 1) = "0"

\* C30, the other case: parse of a text of white space alone has thrown
\* 'Unknown record type' at its one, empty, line
EmptyTextAborted ==
    /\ pc = "thrown"
    /\ thrown = "Unknown record type"
    /\ coda # <<>>
    /\ trim(coda) = <<>>
    /\ lines = << <<>> >>
    /\ i = 0

=============================================================================
